---- MODULE Spec2Model ----
(***************************************************************************)
(* A model of the lambdalab evaluator: lambda terms, capture-avoiding      *)
(* substitution, the four single-step reducers, the bounded driver `run`   *)
(* and alpha-equivalence.  Terms are records tagged by `kind`, exactly as  *)
(* the classes Var, App, Abs and Macro of the source.                      *)
(***************************************************************************)
EXTENDS Integers, Sequences, FiniteSets, TLC

VARIABLES
  pc,       \* position of the operation under way
  inp,      \* the inputs the operation was called with
  out,      \* what the operation returned (NoResult before it returns)
  expr,     \* run: the local `expr`
  steps,    \* run: the local `steps`, the trace being built
  i,        \* run: the loop counter
  calls,    \* run: how many times `reduce` has been called so far
  scanner   \* the session's Scanner: str, offset and macro_lookup

vars == <<pc, inp, out, expr, steps, i, calls, scanner>>

(***************************************************************************)
(* The term representation (src/lib/ast.ts).                               *)
(***************************************************************************)
Var(name) == [kind |-> "var", name |-> name]

App(e1, e2) == [kind |-> "app", e1 |-> e1, e2 |-> e2]

Abs(vbl, body) == [kind |-> "abs", vbl |-> vbl, body |-> body]

Macro(name, body) == [kind |-> "macro", name |-> name, body |-> body]

Flattened(body) == [kind |-> "flat", body |-> body]

\* JavaScript's null, as returned by a reducer that cannot step.
Null == [kind |-> "null"]

\* The value of `out` while no operation has returned.
NoResult == [kind |-> "none"]

\* Array.prototype.indexOf(x) !== -1
Includes(arr, x) == \E k \in DOMAIN arr : arr[k] = x

\* The set of elements of an array.
Elems(arr) == {arr[k] : k \in DOMAIN arr}

(***************************************************************************)
(* Free variables, fresh names and substitution (src/lib/reduce.ts).       *)
(***************************************************************************)
RECURSIVE fv(_)
fv(e) ==
  CASE e.kind = "var" -> <<e.name>>
    [] e.kind = "app" -> fv(e.e1) \o fv(e.e2)
    [] e.kind = "abs" -> LET keep(n) == n # e.vbl IN SelectSeq(fv(e.body), keep)
    [] e.kind = "macro" -> <<>>

\* The while loop of fresh, entered with the given suffix.
RECURSIVE fresh_loop(_, _, _)
fresh_loop(x, taken, suffix) ==
  IF Includes(taken, x \o ToString(suffix))
    THEN fresh_loop(x, taken, suffix + 1)
    ELSE x \o ToString(suffix)

fresh(x, taken) == fresh_loop(x, taken, 0)

RECURSIVE subst(_, _, _)
subst(e, v, x) ==
  CASE e.kind = "var" -> IF e.name = x THEN v ELSE e
    [] e.kind = "app" -> App(subst(e.e1, v, x), subst(e.e2, v, x))
    [] e.kind = "abs" ->
         IF e.vbl = x
           THEN e
           ELSE LET freevars == fv(v) IN
                IF ~Includes(freevars, e.vbl)
                  THEN Abs(e.vbl, subst(e.body, v, x))
                  ELSE LET y == fresh(e.vbl, freevars)
                           body == subst(e.body, Var(y), e.vbl)
                       IN Abs(y, subst(body, v, x))
    [] e.kind = "macro" -> e

(***************************************************************************)
(* The single-step reducers (src/lib/reduce.ts).  Each returns the stepped *)
(* term, or Null when the term cannot take a step.                         *)
(***************************************************************************)
\* reduce_cbv without the unfolding of a macro in function position.
RECURSIVE reduce_cbv_keeps_head_macro(_)
reduce_cbv_keeps_head_macro(e) ==
  IF e.kind # "app" THEN Null
  ELSE LET lhs == reduce_cbv_keeps_head_macro(e.e1) IN
       IF lhs # Null THEN App(lhs, e.e2)
       ELSE LET rhs == reduce_cbv_keeps_head_macro(e.e2) IN
            IF rhs # Null THEN App(e.e1, rhs)
            ELSE IF e.e2.kind = "macro" /\ e.e2.body.kind = "app"
                   THEN App(e.e1, e.e2.body)
            ELSE IF e.e1.kind = "abs" THEN subst(e.e1.body, e.e2, e.e1.vbl)
            ELSE Null

\* reduce_cbv stepping the body of an abstraction as well.
RECURSIVE reduce_cbv_under_binders(_)
reduce_cbv_under_binders(e) ==
  IF e.kind = "abs"
    THEN LET body == reduce_cbv_under_binders(e.body) IN
         IF body # Null THEN Abs(e.vbl, body) ELSE Null
  ELSE IF e.kind # "app" THEN Null
  ELSE LET lhs == reduce_cbv_under_binders(e.e1) IN
       IF lhs # Null THEN App(lhs, e.e2)
       ELSE LET rhs == reduce_cbv_under_binders(e.e2) IN
            IF rhs # Null THEN App(e.e1, rhs)
            ELSE IF e.e1.kind = "macro" THEN App(e.e1.body, e.e2)
            ELSE IF e.e2.kind = "macro" /\ e.e2.body.kind = "app"
                   THEN App(e.e1, e.e2.body)
            ELSE IF e.e1.kind = "abs" THEN subst(e.e1.body, e.e2, e.e1.vbl)
            ELSE Null

\* reduce_cbv unfolding a macro in argument position whatever its expansion.
RECURSIVE reduce_cbv_unfolds_every_argument(_)
reduce_cbv_unfolds_every_argument(e) ==
  IF e.kind # "app" THEN Null
  ELSE LET lhs == reduce_cbv_unfolds_every_argument(e.e1) IN
       IF lhs # Null THEN App(lhs, e.e2)
       ELSE LET rhs == reduce_cbv_unfolds_every_argument(e.e2) IN
            IF rhs # Null THEN App(e.e1, rhs)
            ELSE IF e.e1.kind = "macro" THEN App(e.e1.body, e.e2)
            ELSE IF e.e2.kind = "macro" THEN App(e.e1, e.e2.body)
            ELSE IF e.e1.kind = "abs" THEN subst(e.e1.body, e.e2, e.e1.vbl)
            ELSE Null

RECURSIVE reduce_cbv(_)
reduce_cbv(e) ==
  IF e.kind # "app" THEN Null
  ELSE LET lhs == reduce_cbv(e.e1) IN
       IF lhs # Null THEN App(lhs, e.e2)
       ELSE LET rhs == reduce_cbv(e.e2) IN
            IF rhs # Null THEN App(e.e1, rhs)
            ELSE IF e.e1.kind = "macro" THEN App(e.e1.body, e.e2)
            ELSE IF e.e2.kind = "macro" /\ e.e2.body.kind = "app"
                   THEN App(e.e1, e.e2.body)
            ELSE IF e.e1.kind = "abs" THEN subst(e.e1.body, e.e2, e.e1.vbl)
            ELSE Null

\* reduce_cbn trying a step inside the argument before it substitutes.
RECURSIVE reduce_cbn_steps_argument(_)
reduce_cbn_steps_argument(e) ==
  IF e.kind # "app" THEN Null
  ELSE LET lhs == reduce_cbn_steps_argument(e.e1) IN
       IF lhs # Null THEN App(lhs, e.e2)
       ELSE LET rhs == reduce_cbn_steps_argument(e.e2) IN
            IF rhs # Null THEN App(e.e1, rhs)
            ELSE IF e.e1.kind = "abs" THEN subst(e.e1.body, e.e2, e.e1.vbl)
            ELSE IF e.e1.kind = "macro" THEN App(e.e1.body, e.e2)
            ELSE Null

\* reduce_cbn without the unfolding of a macro in function position.
RECURSIVE reduce_cbn_keeps_head_macro(_)
reduce_cbn_keeps_head_macro(e) ==
  IF e.kind # "app" THEN Null
  ELSE LET lhs == reduce_cbn_keeps_head_macro(e.e1) IN
       IF lhs # Null THEN App(lhs, e.e2)
       ELSE IF e.e1.kind = "abs" THEN subst(e.e1.body, e.e2, e.e1.vbl)
       ELSE Null

RECURSIVE reduce_cbn(_)
reduce_cbn(e) ==
  IF e.kind # "app" THEN Null
  ELSE LET lhs == reduce_cbn(e.e1) IN
       IF lhs # Null THEN App(lhs, e.e2)
       ELSE IF e.e1.kind = "abs" THEN subst(e.e1.body, e.e2, e.e1.vbl)
       ELSE IF e.e1.kind = "macro" THEN App(e.e1.body, e.e2)
       ELSE Null

\* reduce_appl substituting before it has reduced the body of the function.
RECURSIVE reduce_appl_beta_first(_)
reduce_appl_beta_first(e) ==
  IF e.kind = "abs"
    THEN LET body == reduce_appl_beta_first(e.body) IN
         IF body # Null THEN Abs(e.vbl, body) ELSE Null
  ELSE IF e.kind = "app"
    THEN IF e.e1.kind = "abs" THEN subst(e.e1.body, e.e2, e.e1.vbl)
         ELSE LET lhs == reduce_appl_beta_first(e.e1) IN
              IF lhs # Null THEN App(lhs, e.e2)
              ELSE IF e.e1.kind = "macro" THEN App(e.e1.body, e.e2)
              ELSE IF e.e2.kind = "macro" /\ e.e2.body.kind = "app"
                     THEN App(e.e1, e.e2.body)
              ELSE LET rhs == reduce_appl_beta_first(e.e2) IN
                   IF rhs # Null THEN App(e.e1, rhs) ELSE Null
  ELSE Null

RECURSIVE reduce_appl(_)
reduce_appl(e) ==
  IF e.kind = "abs"
    THEN LET body == reduce_appl(e.body) IN
         IF body # Null THEN Abs(e.vbl, body) ELSE Null
  ELSE IF e.kind = "app"
    THEN LET lhs == reduce_appl(e.e1) IN
         IF lhs # Null THEN App(lhs, e.e2)
         ELSE IF e.e1.kind = "abs"
           THEN LET body == reduce_appl(e.e1.body) IN
                IF body # Null
                  THEN App(Abs(e.e1.vbl, body), e.e2)
                  ELSE subst(e.e1.body, e.e2, e.e1.vbl)
         ELSE IF e.e1.kind = "macro" THEN App(e.e1.body, e.e2)
         ELSE IF e.e2.kind = "macro" /\ e.e2.body.kind = "app"
                THEN App(e.e1, e.e2.body)
         ELSE LET rhs == reduce_appl(e.e2) IN
              IF rhs # Null THEN App(e.e1, rhs) ELSE Null
  ELSE Null

\* reduce_normal's application case unfolding a macro in argument position
\* whatever its expansion.
reduce_normal_app_unfolds_every_argument(e) ==
  LET lhs == IF e.e1.kind = "app" THEN reduce_appl(e.e1) ELSE Null IN
  IF lhs # Null THEN App(lhs, e.e2)
  ELSE IF e.e1.kind = "abs" THEN subst(e.e1.body, e.e2, e.e1.vbl)
  ELSE IF e.e1.kind = "macro" THEN App(e.e1.body, e.e2)
  ELSE IF e.e2.kind = "macro" THEN App(e.e1, e.e2.body)
  ELSE LET rhs == reduce_appl(e.e2) IN
       IF rhs # Null THEN App(e.e1, rhs) ELSE Null

\* reduce_normal's application case without the step inside the argument.
reduce_normal_app_head_only(e) ==
  LET lhs == IF e.e1.kind = "app" THEN reduce_appl(e.e1) ELSE Null IN
  IF lhs # Null THEN App(lhs, e.e2)
  ELSE IF e.e1.kind = "abs" THEN subst(e.e1.body, e.e2, e.e1.vbl)
  ELSE IF e.e1.kind = "macro" THEN App(e.e1.body, e.e2)
  ELSE IF e.e2.kind = "macro" /\ e.e2.body.kind = "app"
         THEN App(e.e1, e.e2.body)
  ELSE Null

\* The part of reduce_normal that handles an application.
reduce_normal_app(e) ==
  LET lhs == IF e.e1.kind = "app" THEN reduce_appl(e.e1) ELSE Null IN
  IF lhs # Null THEN App(lhs, e.e2)
  ELSE IF e.e1.kind = "abs" THEN subst(e.e1.body, e.e2, e.e1.vbl)
  ELSE IF e.e1.kind = "macro" THEN App(e.e1.body, e.e2)
  ELSE IF e.e2.kind = "macro" /\ e.e2.body.kind = "app"
         THEN App(e.e1, e.e2.body)
  ELSE LET rhs == reduce_appl(e.e2) IN
       IF rhs # Null THEN App(e.e1, rhs) ELSE Null

reduce_normal(e) ==
  LET body == IF e.kind = "abs" THEN reduce_appl(e.body) ELSE Null IN
  IF body # Null THEN Abs(e.vbl, body)
  ELSE IF e.kind = "app" THEN reduce_normal_app(e)
  ELSE Null

\* The members of enum Strategy, by the names strat_of_string accepts.
Strategy == {"cbv", "cbn", "normal", "appl"}

\* The reducer a caller passes to run for a strategy.
reduce(s, e) ==
  CASE s = "cbv" -> reduce_cbv(e)
    [] s = "cbn" -> reduce_cbn(e)
    [] s = "normal" -> reduce_normal(e)
    [] s = "appl" -> reduce_appl(e)

(***************************************************************************)
(* pretty(e, null): the printed form of a term, without colouring tags.    *)
(***************************************************************************)
\* pretty without the parentheses around an application in argument
\* position.
RECURSIVE pretty_bare_arguments(_)
pretty_bare_arguments(e) ==
  CASE e.kind = "var" -> e.name
    [] e.kind = "abs" -> "λ" \o e.vbl \o ". " \o pretty_bare_arguments(e.body)
    [] e.kind = "macro" -> e.name
    [] e.kind = "flat" -> "..."
    [] e.kind = "app" ->
         LET lhs == IF e.e1.kind = "abs"
                      THEN "(" \o pretty_bare_arguments(e.e1) \o ")"
                      ELSE pretty_bare_arguments(e.e1)
             rhs == IF e.e2.kind = "abs"
                      THEN "(" \o pretty_bare_arguments(e.e2) \o ")"
                      ELSE pretty_bare_arguments(e.e2)
         IN lhs \o " " \o rhs

RECURSIVE pretty(_)
pretty(e) ==
  CASE e.kind = "var" -> e.name
    [] e.kind = "abs" -> "λ" \o e.vbl \o ". " \o pretty(e.body)
    [] e.kind = "macro" -> e.name
    [] e.kind = "flat" -> "..."
    [] e.kind = "app" ->
         LET lhs == IF e.e1.kind = "abs"
                      THEN "(" \o pretty(e.e1) \o ")"
                      ELSE pretty(e.e1)
             rhs == IF e.e2.kind \in {"app", "abs"}
                      THEN "(" \o pretty(e.e2) \o ")"
                      ELSE pretty(e.e2)
         IN lhs \o " " \o rhs

(***************************************************************************)
(* Closedness (is_closed_in_context, is_closed).                           *)
(***************************************************************************)
RECURSIVE is_closed_in_context(_, _)
is_closed_in_context(e, context) ==
  IF e.kind = "var" THEN Includes(context, e.name)
  ELSE IF e.kind = "app"
    THEN is_closed_in_context(e.e1, context) /\ is_closed_in_context(e.e2, context)
  ELSE IF e.kind = "abs"
    THEN LET newContext == Append(context, e.vbl) IN
         is_closed_in_context(e.body, newContext)
  ELSE TRUE

is_closed(e) == is_closed_in_context(e, <<>>)

(***************************************************************************)
(* Alpha-equivalence of closed terms (alpha_equivalent).                   *)
(***************************************************************************)
\* Array.prototype.indexOf: the 0-based index of the first occurrence of x
\* in arr, or -1.
indexOf(arr, x) ==
  IF Includes(arr, x)
    THEN (CHOOSE k \in DOMAIN arr :
            arr[k] = x /\ \A m \in DOMAIN arr : arr[m] = x => k <= m) - 1
    ELSE -1

\* Array.prototype.lastIndexOf: the 0-based index of the last occurrence of
\* x in arr, or -1.
lastIndexOf(arr, x) ==
  IF Includes(arr, x)
    THEN (CHOOSE k \in DOMAIN arr :
            arr[k] = x /\ \A m \in DOMAIN arr : arr[m] = x => m <= k) - 1
    ELSE -1

\* alpha_equiv_in_context recording the binders of the first term only.
RECURSIVE alpha_equiv_one_context(_, _, _, _)
alpha_equiv_one_context(e1, vars1, e2, vars2) ==
  IF e1.kind = "var" /\ e2.kind = "var"
    THEN lastIndexOf(vars1, e1.name) = lastIndexOf(vars2, e2.name)
  ELSE IF e1.kind = "app" /\ e2.kind = "app"
    THEN /\ alpha_equiv_one_context(e1.e1, vars1, e2.e1, vars2)
         /\ alpha_equiv_one_context(e1.e2, vars1, e2.e2, vars2)
  ELSE IF e1.kind = "abs" /\ e2.kind = "abs"
    THEN LET newvars1 == Append(vars1, e1.vbl)
         IN alpha_equiv_one_context(e1.body, newvars1, e2.body, vars2)
  ELSE IF e1.kind = "macro" /\ e2.kind = "macro"
    THEN alpha_equiv_one_context(e1.body, <<>>, e2.body, <<>>)
  ELSE FALSE

RECURSIVE alpha_equiv_in_context(_, _, _, _)
alpha_equiv_in_context(e1, vars1, e2, vars2) ==
  IF e1.kind = "var" /\ e2.kind = "var"
    THEN lastIndexOf(vars1, e1.name) = lastIndexOf(vars2, e2.name)
  ELSE IF e1.kind = "app" /\ e2.kind = "app"
    THEN /\ alpha_equiv_in_context(e1.e1, vars1, e2.e1, vars2)
         /\ alpha_equiv_in_context(e1.e2, vars1, e2.e2, vars2)
  ELSE IF e1.kind = "abs" /\ e2.kind = "abs"
    THEN LET newvars1 == Append(vars1, e1.vbl)
             newvars2 == Append(vars2, e2.vbl)
         IN alpha_equiv_in_context(e1.body, newvars1, e2.body, newvars2)
  ELSE IF e1.kind = "macro" /\ e2.kind = "macro"
    THEN alpha_equiv_in_context(e1.body, <<>>, e2.body, <<>>)
  ELSE FALSE

alpha_equivalent(ex1, ex2) ==
  is_closed(ex1) /\ is_closed(ex2) /\ alpha_equiv_in_context(ex1, <<>>, ex2, <<>>)

(***************************************************************************)
(* Macro-equivalence (replace_macros, equiv_a).  sigma is the macro        *)
(* library; replace_macros takes it and never reads it.                    *)
(***************************************************************************)
\* replace_macros leaving every macro reference in place.
replace_macros_keeps_references(e, sigma) == e

RECURSIVE replace_macros(_, _)
replace_macros(e, sigma) ==
  CASE e.kind = "var" -> Var(e.name)
    [] e.kind = "app" -> App(replace_macros(e.e1, sigma), replace_macros(e.e2, sigma))
    [] e.kind = "abs" -> Abs(e.vbl, replace_macros(e.body, sigma))
    [] e.kind = "macro" -> replace_macros(e.body, sigma)

equiv_a(e1, e2, sigma) ==
  alpha_equivalent(replace_macros(e1, sigma), replace_macros(e2, sigma))

(***************************************************************************)
(* Resugaring (equiv_s, in_library, resugar).  sigma lists the             *)
(* MacroDefinitions in the order in which `for (name in sigma)` visits      *)
(* them.                                                                   *)
(***************************************************************************)
\* One turn of a for loop of equiv_s on st = [term, halted], next_e being
\* what the reducer returned for the term: the loop steps, or breaks.
equiv_s_turn(st, next_e) ==
  IF next_e = Null THEN [term |-> st.term, halted |-> TRUE]
  ELSE [term |-> next_e, halted |-> FALSE]

\* n turns of a for loop of equiv_s from st.  The turns are split in two
\* halves, so that the evaluation nests no deeper than the logarithm of n.
RECURSIVE equiv_s_loop(_, _, _)
equiv_s_loop(st, n, s) ==
  IF st.halted THEN st
  ELSE IF n = 1 THEN equiv_s_turn(st, reduce(s, st.term))
  ELSE equiv_s_loop(equiv_s_loop(st, n \div 2, s), n - (n \div 2), s)

\* return alpha_equivalent(e1, e2), after the second loop has left n2.
equiv_s_return(n1, n2) ==
  IF ~n2.halted THEN FALSE ELSE alpha_equivalent(n1.term, n2.term)

\* The second loop, after the first has left n1.
equiv_s_second(n1, e2, sigma, s, timeout) ==
  IF ~n1.halted THEN FALSE
  ELSE equiv_s_return(n1,
         equiv_s_loop([term |-> replace_macros(e2, sigma), halted |-> FALSE],
                      timeout + 1, s))

\* i runs from 0 to timeout: timeout + 1 turns, and a loop that has stepped
\* in all of them gives up.
equiv_s(e1, e2, sigma, s, timeout) ==
  IF e1 = Null \/ e2 = Null THEN FALSE
  ELSE IF s \notin Strategy THEN FALSE
  ELSE equiv_s_second(
         equiv_s_loop([term |-> replace_macros(e1, sigma), halted |-> FALSE],
                      timeout + 1, s),
         e2, sigma, s, timeout)

\* The test in_library makes of e against one definition under s.
in_library_test(e, def, sigma, s, timeout) ==
  CASE s = "cbn" -> \/ equiv_s(e, def.cbn_val, sigma, s, timeout)
                    \/ equiv_s(e, def.full_val, sigma, "normal", timeout)
    [] s = "cbv" -> \/ equiv_s(e, def.cbv_val, sigma, s, timeout)
                    \/ equiv_s(e, def.full_val, sigma, "normal", timeout)
    [] s = "normal" -> equiv_s(e, def.full_val, sigma, s, timeout)
    [] s = "appl" -> \/ equiv_s(e, def.full_val, sigma, s, timeout)
                     \/ equiv_s(e, def.full_val, sigma, "normal", timeout)
    [] OTHER -> FALSE

\* The reference in_library returns for a definition that passed the test.
in_library_macro(def, s) ==
  CASE s = "cbn" -> Macro(def.name, IF def.cbn_val # Null THEN def.cbn_val ELSE def.full_val)
    [] s = "cbv" -> Macro(def.name, IF def.cbv_val # Null THEN def.cbv_val ELSE def.full_val)
    [] OTHER -> Macro(def.name, def.full_val)

\* for (let name in sigma) from the k-th name on.
RECURSIVE in_library_from(_, _, _, _, _)
in_library_from(e, sigma, k, s, timeout) ==
  IF k > Len(sigma) THEN Null
  ELSE IF in_library_test(e, sigma[k], sigma, s, timeout)
    THEN in_library_macro(sigma[k], s)
  ELSE in_library_from(e, sigma, k + 1, s, timeout)

in_library(e, sigma, s, timeout) ==
  IF e.kind = "macro" THEN Null ELSE in_library_from(e, sigma, 1, s, timeout)

\* The timeout resugar gives in_library.
ResugarTimeout == 30

\* The application case of resugar reporting only whether the function part
\* changed.
resugar_app_forgets_argument(e, r1, r2) == <<App(r1[1], r2[1]), r1[2]>>

\* The application case of resugar leaving the argument as it is once the
\* function part has changed.
resugar_app_first_match_only(e, r1, r2) ==
  IF r1[2] THEN <<App(r1[1], e.e2), TRUE>> ELSE <<App(r1[1], r2[1]), r2[2]>>

\* case "app", r1 and r2 being what resugar returned for e.e1 and e.e2.
resugar_app(e, r1, r2) == <<App(r1[1], r2[1]), r1[2] \/ r2[2]>>

\* case "abs", r being what resugar returned for e.body.
resugar_abs(e, r) == <<Abs(e.vbl, r[1]), r[2]>>

\* The pair [term, changed] resugar returns; mac is what in_library
\* returned for e.
RECURSIVE resugar(_, _, _)
RECURSIVE resugar_walk(_, _, _, _)
resugar_walk(e, sigma, s, mac) ==
  IF mac # Null THEN <<mac, TRUE>>
  ELSE CASE e.kind = "var" -> <<e, FALSE>>
         [] e.kind = "app" ->
              resugar_app(e, resugar(e.e1, sigma, s), resugar(e.e2, sigma, s))
         [] e.kind = "abs" -> resugar_abs(e, resugar(e.body, sigma, s))
         [] e.kind = "macro" -> <<e, FALSE>>

resugar(e, sigma, s) == resugar_walk(e, sigma, s, in_library(e, sigma, s, ResugarTimeout))

(***************************************************************************)
(* The Scanner and the recursive-descent parser (parse.ts).  A scanner is  *)
(* the record [str, offset, macro_lookup]; macro_lookup lists the          *)
(* MacroDefinitions in the order of the object's keys.  A function that    *)
(* can throw returns Ok(val, s) or Throw(msg, s), s being the scanner as   *)
(* the call left it.                                                       *)
(***************************************************************************)
MacroDefinition(name, cbv_val, cbn_val, full_val, unreduced) ==
  [name |-> name, cbv_val |-> cbv_val, cbn_val |-> cbn_val,
   full_val |-> full_val, unreduced |-> unreduced]

ParseError(msg, pos) == [msg |-> msg, pos |-> pos]

Ok(val, s) == [thrown |-> FALSE, val |-> val, s |-> s]

Throw(msg, s) == [thrown |-> TRUE, err |-> ParseError(msg, s.offset), s |-> s]

set_string(s, str) == [s EXCEPT !.offset = 0, !.str = str]

\* The characters the scanner's regular expressions tell apart.
Whitespace == {" "}

Lower ==
  {"a", "b", "c", "d", "e", "f", "g", "h", "i", "j", "k", "l", "m", "n", "o",
   "p", "q", "r", "s", "t", "u", "v", "w", "x", "y", "z",
   "0", "1", "2", "3", "4", "5", "6", "7", "8", "9"}

Upper ==
  {"A", "B", "C", "D", "E", "F", "G", "H", "I", "J", "K", "L", "M", "N", "O",
   "P", "Q", "R", "S", "T", "U", "V", "W", "X", "Y", "Z"}

\* The character of str at a 0-based offset ("" past the end).
CharAt(str, offset) ==
  IF offset < Len(str) THEN SubSeq(str, offset + 1, offset + 1) ELSE ""

\* The offset after the longest run of characters of class that starts at
\* offset.
RECURSIVE RunEnd(_, _, _)
RunEnd(str, offset, class) ==
  IF offset < Len(str) /\ CharAt(str, offset) \in class
    THEN RunEnd(str, offset + 1, class)
    ELSE offset

\* scan(/[class]+/) and scan(/[class]*/): the match ("" for none, which the
\* callers test as falsy) and the scanner advanced past it.
scan_run(s, class) ==
  LET end == RunEnd(s.str, s.offset, class) IN
  [match |-> SubSeq(s.str, s.offset + 1, end), s |-> [s EXCEPT !.offset = end]]

\* scan of a literal text.
scan_text(s, text) ==
  IF /\ s.offset + Len(text) <= Len(s.str)
     /\ SubSeq(s.str, s.offset + 1, s.offset + Len(text)) = text
    THEN [match |-> text, s |-> [s EXCEPT !.offset = s.offset + Len(text)]]
    ELSE [match |-> "", s |-> s]

\* scan(/\\|λ/)
scan_lambda(s) ==
  IF CharAt(s.str, s.offset) \in {"\\", "λ"}
    THEN [match |-> CharAt(s.str, s.offset), s |-> [s EXCEPT !.offset = s.offset + 1]]
    ELSE [match |-> "", s |-> s]

done(s) == s.offset = Len(s.str)

skip_whitespace(s) == scan_run(s, Whitespace).s

parse_var_name(s) == scan_run(s, Lower)

parse_macro_name(s) == scan_run(s, Upper)

\* s.macro_lookup[name]: the definition stored under name, Null for none.
HasMacroNamed(lookup, name) == \E k \in DOMAIN lookup : lookup[k].name = name

Lookup(lookup, name) ==
  IF HasMacroNamed(lookup, name)
    THEN lookup[CHOOSE k \in DOMAIN lookup : lookup[k].name = name]
    ELSE Null

parse_var(s) ==
  LET name == parse_var_name(s) IN
  IF name.match # "" THEN Ok(Var(name.match), name.s) ELSE Ok(Null, s)

parse_dots(s) ==
  LET dots == scan_text(s, "...") IN
  IF dots.match = "" THEN Ok(Null, s)
  ELSE Ok(Flattened(Var(dots.match)), skip_whitespace(dots.s))

\* parse_macro taking the source term of the macro whatever values are
\* stored.
parse_macro_unreduced(s, eval_strat) ==
  LET name == parse_macro_name(s) IN
  IF name.match = "" THEN Ok(Null, s)
  ELSE LET mac == Lookup(s.macro_lookup, name.match) IN
       IF mac = Null THEN Throw("Macro undefined", name.s)
       ELSE Ok(Macro(name.match, mac.unreduced), name.s)

parse_macro(s, eval_strat) ==
  LET name == parse_macro_name(s) IN
  IF name.match = "" THEN Ok(Null, s)
  ELSE LET mac == Lookup(s.macro_lookup, name.match) IN
       IF mac = Null THEN Throw("Macro undefined", name.s)
       ELSE LET by_strategy ==
                  IF eval_strat = "cbv" THEN mac.cbv_val
                  ELSE IF eval_strat = "cbn" THEN mac.cbn_val
                  ELSE mac.unreduced
                body ==
                  IF mac.full_val # Null THEN mac.full_val
                  ELSE IF by_strategy # Null THEN by_strategy
                  ELSE mac.unreduced
            IN Ok(Macro(name.match, body), name.s)

RECURSIVE parse_expr(_, _)
RECURSIVE parse_expr_loop(_, _, _)
RECURSIVE parse_term(_, _)
RECURSIVE parse_abs(_, _)

\* The end of parse_abs, body being what parse_expr returned or threw.
parse_abs_body(name, body) ==
  IF body.thrown THEN body ELSE Ok(Abs(name, body.val), body.s)

parse_abs(s, eval_strat) ==
  LET lambda == scan_lambda(s) IN
  IF lambda.match = "" THEN Ok(Null, s)
  ELSE LET name == parse_var_name(skip_whitespace(lambda.s)) IN
       IF name.match = "" THEN Throw("expected variable name after lambda", name.s)
       ELSE LET dot == scan_text(skip_whitespace(name.s), ".") IN
            IF dot.match = "" THEN Throw("expected dot after variable name", dot.s)
            ELSE parse_abs_body(name.match,
                                parse_expr(skip_whitespace(dot.s), eval_strat))

\* The parenthesis case reporting a missing closing parenthesis as a
\* missing term.
parse_term_parens_wants_term(e) ==
  IF e.thrown THEN e
  ELSE LET close == scan_text(e.s, ")") IN
       IF close.match # "" THEN Ok(e.val, close.s)
       ELSE Throw("expected term", e.s)

\* The parenthesis case of parse_term after the open parenthesis, e being
\* what parse_expr returned or threw.
parse_term_parens(e) ==
  IF e.thrown THEN e
  ELSE LET close == scan_text(e.s, ")") IN
       IF close.match # "" THEN Ok(e.val, close.s)
       ELSE Throw("unbalanced parentheses", e.s)

\* parse_term from its abstraction case on, abs being what parse_abs
\* returned or threw.
parse_term_abs(s, eval_strat, abs) ==
  IF abs.thrown \/ abs.val # Null THEN abs
  ELSE LET open == scan_text(s, "(") IN
       IF open.match = "" THEN Ok(Null, s)
       ELSE parse_term_parens(parse_expr(open.s, eval_strat))

parse_term(s, eval_strat) ==
  LET dots == parse_dots(s) IN
  IF dots.val # Null THEN dots
  ELSE LET vbl == parse_var(s) IN
  IF vbl.val # Null THEN vbl
  ELSE LET mac == parse_macro(s, eval_strat) IN
  IF mac.thrown \/ mac.val # Null THEN mac
  ELSE parse_term_abs(s, eval_strat, parse_abs(s, eval_strat))

\* A turn of parse_expr's loop stacking the new term as the function of the
\* application instead of its argument.
parse_expr_turn_swapped(term, eval_strat, out_term) ==
  IF term.thrown THEN term
  ELSE IF term.val = Null
    THEN IF out_term = Null THEN Throw("expected term", term.s)
         ELSE Ok(out_term, term.s)
  ELSE parse_expr_loop(skip_whitespace(term.s), eval_strat,
                       IF out_term = Null THEN term.val ELSE App(term.val, out_term))

\* A turn of the while (true) loop of parse_expr, term being what
\* parse_term returned or threw and out_term the terms accumulated so far.
parse_expr_turn(term, eval_strat, out_term) ==
  IF term.thrown THEN term
  ELSE IF term.val = Null
    THEN IF out_term = Null THEN Throw("expected term", term.s)
         ELSE Ok(out_term, term.s)
  ELSE parse_expr_loop(skip_whitespace(term.s), eval_strat,
                       IF out_term = Null THEN term.val ELSE App(out_term, term.val))

parse_expr_loop(s, eval_strat, out_term) ==
  parse_expr_turn(parse_term(s, eval_strat), eval_strat, out_term)

parse_expr(s, eval_strat) == parse_expr_loop(skip_whitespace(s), eval_strat, Null)

\* The end of parse, e being what parse_expr returned or threw.
parse_end(e) ==
  IF e.thrown THEN e
  ELSE IF e.s.offset < Len(e.s.str) THEN Throw("unexpected token", e.s)
  ELSE e

parse(s, strat) == parse_end(parse_expr(s, strat))

(***************************************************************************)
(* Macro definitions: find_value, compileMacro, add_macro, init_macros,    *)
(* recompileMacros, copyMacros, sortMacros.                                *)
(***************************************************************************)
TIMEOUT == 100

\* One inspection of the driver's loop on st = [term, halted], next_expr
\* being what the reducer returned for the term: the loop steps, or finds
\* no step and halts.
run_inspect(st, next_expr) ==
  IF next_expr = Null THEN [term |-> st.term, halted |-> TRUE]
  ELSE [term |-> next_expr, halted |-> FALSE]

\* Up to n inspections from st.  The n inspections are split in two halves,
\* so that the evaluation nests no deeper than the logarithm of n.
RECURSIVE run_from(_, _, _)
run_from(st, n, strat) ==
  IF st.halted THEN st
  ELSE IF n = 1 THEN run_inspect(st, reduce(strat, st.term))
  ELSE run_from(run_from(st, n \div 2, strat), n - (n \div 2), strat)

\* The final entry of the driver's trace, st being where its loop stopped.
run_last(st) == [term |-> st.term, timed_out |-> ~st.halted]

\* The driver as find_value calls it, reduced to its final entry: the term
\* it stopped at and whether it stopped for want of budget.  At most
\* timeout + 1 terms are inspected.
run_final(e, timeout, strat) ==
  run_last(run_from([term |-> e, halted |-> FALSE], timeout + 1, strat))

\* The value find_value takes from the final entry of the trace.
find_value_of(last) == IF ~last.timed_out THEN last.term ELSE Null

\* The second component of find_value's result: the value, or Null after a
\* timeout.
find_value(e, strat) == find_value_of(run_final(e, TIMEOUT, strat))

\* s.macro_lookup[def.name] = def: an existing key keeps its place, a new
\* key goes last.
Store(lookup, def) ==
  IF HasMacroNamed(lookup, def.name)
    THEN [k \in DOMAIN lookup |-> IF lookup[k].name = def.name THEN def ELSE lookup[k]]
    ELSE Append(lookup, def)

\* The end of compileMacro storing the call-by-value and call-by-name
\* values beside a full normal form.
compileMacro_values_beside_full(s, macro_name, full_expr, full, cbn, cbv) ==
  Ok(macro_name,
     [full_expr.s EXCEPT !.macro_lookup =
        Store(s.macro_lookup,
              IF full # Null \/ cbn # Null
                THEN MacroDefinition(macro_name, cbv, cbn, full, full_expr.val)
              ELSE MacroDefinition(macro_name, Null, Null, Null, full_expr.val))])

\* The end of compileMacro: the definition is stored.  full, cbn and cbv
\* are what find_value returned under the three strategies.
compileMacro_values(s, macro_name, full_expr, full, cbn, cbv) ==
  Ok(macro_name,
     [full_expr.s EXCEPT !.macro_lookup =
        Store(s.macro_lookup,
              IF full # Null
                THEN MacroDefinition(macro_name, Null, Null, full, full_expr.val)
              ELSE IF cbn # Null
                THEN MacroDefinition(macro_name, cbv, cbn, Null, full_expr.val)
              ELSE MacroDefinition(macro_name, Null, Null, Null, full_expr.val))])

\* compileMacro after its first parse, without the check that the term is
\* closed.
compileMacro_parsed_unchecked(s, macro_text, macro_name, full_expr) ==
  IF full_expr.thrown THEN full_expr
  ELSE compileMacro_values(s, macro_name, full_expr,
         find_value(full_expr.val, "normal"),
         find_value(parse_expr(set_string(s, macro_text), "cbn").val, "cbn"),
         find_value(parse_expr(set_string(s, macro_text), "cbv").val, "cbv"))

\* compileMacro after its first parse, full_expr being what parse_expr
\* returned or threw.
compileMacro_parsed(s, macro_text, macro_name, full_expr) ==
  IF full_expr.thrown THEN full_expr
  ELSE IF ~is_closed(full_expr.val)
    THEN Throw("Macros must be closed terms", full_expr.s)
  ELSE compileMacro_values(s, macro_name, full_expr,
         find_value(full_expr.val, "normal"),
         find_value(parse_expr(set_string(s, macro_text), "cbn").val, "cbn"),
         find_value(parse_expr(set_string(s, macro_text), "cbv").val, "cbv"))

compileMacro(s, macro_text, macro_name) ==
  compileMacro_parsed(s, macro_text, macro_name,
                      parse_expr(set_string(s, macro_text), "normal"))

\* The definition sign of `NAME sign term` (U+225C in the source), written
\* here with a character of the module's character set that no term holds.
DefinitionSign == "="

\* add_macro after the name, eq being the scan of the definition sign.  The
\* text after the sign is taken from the first such sign of the string,
\* which is the one scanned: only a name and whitespace precede.
add_macro_signed(s, macro_name, eq) ==
  IF eq.match = ""
    THEN Throw("Improperly formatted macro definition", eq.s)
  ELSE compileMacro(skip_whitespace(eq.s),
                    SubSeq(s.str, eq.s.offset + 1, Len(s.str)), macro_name.match)

\* add_macro after parse_macro_name.
add_macro_named(s, macro_name) ==
  IF macro_name.match = ""
    THEN Throw("Improperly formatted macro definition", macro_name.s)
  ELSE add_macro_signed(s, macro_name,
                        scan_text(skip_whitespace(macro_name.s), DefinitionSign))

add_macro(s) == add_macro_named(s, parse_macro_name(skip_whitespace(s)))

RECURSIVE recompile_each(_, _)

\* The forEach after a macro has been compiled, first being what
\* compileMacro returned or threw.
recompile_rest(first, sorted) ==
  IF first.thrown THEN first ELSE recompile_each(first.s, Tail(sorted))

\* recompileMacros compiling each macro from its stored normal form, where
\* it has one, instead of its source term.
recompile_each_from_values(s, sorted) ==
  IF sorted = <<>> THEN Ok(Null, s)
  ELSE recompile_rest(
         compileMacro(s, pretty(IF Head(sorted).full_val # Null
                                  THEN Head(sorted).full_val
                                  ELSE Head(sorted).unreduced),
                      Head(sorted).name),
         sorted)

recompile_each(s, sorted) ==
  IF sorted = <<>> THEN Ok(Null, s)
  ELSE recompile_rest(
         compileMacro(s, pretty(Head(sorted).unreduced), Head(sorted).name),
         sorted)

recompileMacros(s, sorted) == recompile_each([s EXCEPT !.macro_lookup = <<>>], sorted)

copyMacros(s) ==
  [k \in DOMAIN s.macro_lookup |->
     LET macro == s.macro_lookup[k] IN
     MacroDefinition(macro.name, macro.cbv_val, macro.cbn_val, macro.full_val,
                     macro.unreduced)]

RECURSIVE dependsExpr(_, _)
dependsExpr(e, name) ==
  IF e.kind = "macro" THEN name = e.name
  ELSE IF e.kind = "app" THEN dependsExpr(e.e1, name) \/ dependsExpr(e.e2, name)
  ELSE IF e.kind = "abs" THEN dependsExpr(e.body, name)
  ELSE FALSE

\* The names of the macros a definition refers to in its unreduced term.
getDependencies(macro, s) ==
  {s.macro_lookup[k].name : k \in {j \in DOMAIN s.macro_lookup :
                                     dependsExpr(macro.unreduced, s.macro_lookup[j].name)}}

\* toposort.array: the macros ordered so that each comes after the macros
\* it depends on, keeping the order of the table where the dependencies
\* leave it free; throws on a cyclic dependency.  ready are the places of
\* rest whose macro depends on placed macros only.
RECURSIVE toposort(_, _, _)
toposort_ready(s, rest, sorted, ready) ==
  IF ready = {} THEN Throw("Cyclic dependency", s)
  ELSE LET k == CHOOSE j \in ready : \A m \in ready : j <= m IN
       toposort(s, SubSeq(rest, 1, k - 1) \o SubSeq(rest, k + 1, Len(rest)),
                Append(sorted, rest[k]))

toposort(s, rest, sorted) ==
  IF rest = <<>> THEN Ok(sorted, s)
  ELSE toposort_ready(s, rest, sorted,
         {k \in DOMAIN rest :
            getDependencies(rest[k], s) \subseteq {sorted[j].name : j \in DOMAIN sorted}})

sortMacros(s) == toposort(s, s.macro_lookup, <<>>)

\* The library a new Scanner starts with.
init_macros ==
  LET id == Abs("x", Var("x"))
      succ == Abs("n", Abs("f", Abs("x", App(Var("f"),
                App(App(Var("n"), Var("f")), Var("x"))))))
      zero == Abs("f", Abs("x", Var("x")))
      one == Abs("f", Abs("x", App(Var("f"), Var("x"))))
      plus == Abs("m", Abs("n", App(App(Var("n"), Macro("SUCC", succ)), Var("m"))))
      mult == Abs("m", Abs("n", App(App(Var("m"), App(plus, Var("n"))), zero)))
      pred == Abs("n", Abs("f", Abs("x",
                App(App(App(Var("n"), Abs("g", Abs("h",
                  App(Var("h"), App(Var("g"), Var("f")))))),
                  Abs("u", Var("x"))), id))))
      sub == Abs("m", Abs("n", App(App(Var("n"), Macro("PRED", pred)), Var("m"))))
      tr == Abs("a", Abs("b", Var("a")))
      fl == Abs("a", Abs("b", Var("b")))
  IN << MacroDefinition("ID", Null, Null, id, id),
        MacroDefinition("SUCC", Null, Null, succ, succ),
        MacroDefinition("ZERO", Null, Null, zero, zero),
        MacroDefinition("ONE", Null, Null, one, one),
        MacroDefinition("PLUS", Null, Null, plus, plus),
        MacroDefinition("MULT", Null, Null, mult, mult),
        MacroDefinition("PRED", Null, Null, pred, pred),
        MacroDefinition("SUB", Null, Null, sub, sub),
        MacroDefinition("TRUE", Null, Null, tr, tr),
        MacroDefinition("FALSE", Null, Null, fl, fl) >>

\* new Scanner()
NewScanner == [offset |-> 0, str |-> "", macro_lookup |-> init_macros]

\* No error shown (clearError).
NoError == ParseError("", 0)

\* new ParseError("Cannot define circularly dependent macro", 0)
CircularError == ParseError("Cannot define circularly dependent macro", 0)

\* The inner try after scanner.recompileMacros(sorted), recompiled being
\* what it returned or threw.
macro_execute_recompiled(old, added, recompiled) ==
  IF recompiled.thrown
    THEN [s |-> [recompiled.s EXCEPT !.macro_lookup = old], error |-> CircularError,
          old |-> old, added |-> added.s.macro_lookup]
  ELSE [s |-> recompiled.s, error |-> NoError, old |-> old,
        added |-> added.s.macro_lookup]

\* The inner try without the restoring of the snapshot when sorting fails.
macro_execute_sorted_keeps_failed_table(old, added, sorted) ==
  IF sorted.thrown
    THEN [s |-> added.s, error |-> CircularError, old |-> old,
          added |-> added.s.macro_lookup]
  ELSE macro_execute_recompiled(old, added, recompileMacros(added.s, sorted.val))

\* The inner try sorting the macros without recompiling them.
macro_execute_sorted_without_recompiling(old, added, sorted) ==
  IF sorted.thrown
    THEN [s |-> [added.s EXCEPT !.macro_lookup = old], error |-> CircularError,
          old |-> old, added |-> added.s.macro_lookup]
  ELSE [s |-> added.s, error |-> NoError, old |-> old,
        added |-> added.s.macro_lookup]

\* The inner try after sortMacros(scanner), sorted being what it returned
\* or threw.
macro_execute_sorted(old, added, sorted) ==
  IF sorted.thrown
    THEN [s |-> [added.s EXCEPT !.macro_lookup = old], error |-> CircularError,
          old |-> old, added |-> added.s.macro_lookup]
  ELSE macro_execute_recompiled(old, added, recompileMacros(added.s, sorted.val))

\* The outer try after add_macro(scanner), added being what it returned or
\* threw and old the snapshot of copyMacros.
macro_execute_added(old, added) ==
  IF added.thrown
    THEN [s |-> added.s, error |-> added.err, old |-> old, added |-> old]
  ELSE macro_execute_sorted(old, added, sortMacros(added.s))

\* The execute handler of macroSetUp on the text of the macro box: the
\* scanner it leaves, the error it shows, its snapshot `old` and the table
\* as add_macro left it (`added`, the snapshot when add_macro threw).
macro_execute(s, code) ==
  IF RunEnd(code, 0, Whitespace) = Len(code)
    THEN [s |-> s, error |-> NoError, old |-> s.macro_lookup, added |-> s.macro_lookup]
  ELSE macro_execute_added(copyMacros(set_string(s, code)),
                           add_macro(set_string(s, code)))

(***************************************************************************)
(* The terms the operations are exercised on.                              *)
(***************************************************************************)
AppsOver(S) == {App(a, b) : a \in S, b \in S}

AbsOver(N, S) == {Abs(n, b) : n \in N, b \in S}

\* One more level of term structure over S, binding names of N.
Grow(N, S) == S \cup AppsOver(S) \cup AbsOver(N, S)

\* lambda x. x  and  lambda x. x x
IdTerm == Abs("x", Var("x"))

Delta == Abs("x", App(Var("x"), Var("x")))

\* (lambda x. x x) (lambda x. x x), which steps to itself
Omega == App(Delta, Delta)

\* Macro references as parse_macro builds them.  ID and FALSE are predefined
\* by init_macros; OMEGA and DELTA stand for user definitions
\* OMEGA := (\x. x x) (\x. x x) and DELTA := \x. x x.
MacroID == Macro("ID", IdTerm)

MacroFALSE == Macro("FALSE", Abs("a", Abs("b", Var("b"))))

MacroOMEGA == Macro("OMEGA", Omega)

MacroDELTA == Macro("DELTA", Delta)

(***************************************************************************)
(* Substitution exercised on its own: subst(body, value, x).               *)
(***************************************************************************)
SubstNames == {"x", "y", "y0"}

SubstAtoms == {Var(n) : n \in SubstNames}

SubstValues == Grow(SubstNames, SubstAtoms) \cup {MacroID}

SubstBodies ==
  Grow(SubstNames, Grow(SubstNames, SubstAtoms))
    \cup {MacroID, App(MacroID, Var("x")), Abs("y", App(Var("x"), MacroID))}

InitSubst ==
  /\ pc = "subst_call"
  /\ inp \in {<<b, v, x>> : b \in SubstBodies, v \in SubstValues, x \in SubstNames}
  /\ out = NoResult
  /\ expr = Null
  /\ steps = <<>>
  /\ i = 0
  /\ calls = 0
  /\ scanner = NewScanner

SubstCall ==
  /\ pc = "subst_call"
  /\ out' = subst(inp[1], inp[2], inp[3])
  /\ pc' = "subst_ret"
  /\ UNCHANGED <<scanner, inp, expr, steps, i, calls>>

NextSubst == SubstCall

SpecSubst == InitSubst /\ [][NextSubst]_vars

\* The set of free variables of a term, for stating claims.
FV(e) == Elems(fv(e))

\* C1: subst never captures: the free variables of subst(body, value, x) are
\* (FV(body) minus x), together with FV(value) when x occurs free in body.
C1_SubstFreeVars ==
  pc = "subst_ret" =>
    FV(out) = (FV(inp[1]) \ {inp[3]})
                \cup (IF inp[3] \in FV(inp[1]) THEN FV(inp[2]) ELSE {})

(***************************************************************************)
(* The driver run(expr, timeout, reduce) of src/lib/reduce.ts, one action  *)
(* per pass through its loop.  inp = <<expr, timeout, strategy>>.          *)
(***************************************************************************)
MaxBudget == 8

RunNames == {"x", "y"}

RunAtoms == {Var(n) : n \in RunNames} \cup {MacroID, MacroOMEGA}

\* lambda w. (lambda v. v Omega) (lambda a. lambda b. b): its body reduces to
\* lambda b. b once the outer redex is contracted.
DiscardsOmega ==
  Abs("w", App(Abs("v", App(Var("v"), Omega)), Abs("a", Abs("b", Var("b")))))

\* DELTA (ID ID): the argument is used twice.
DeltaIdId == App(MacroDELTA, App(MacroID, MacroID))

RunTerms ==
  Grow(RunNames, Grow(RunNames, RunAtoms))
    \cup {Omega, DiscardsOmega, DeltaIdId, App(MacroFALSE, MacroOMEGA)}

InitRun ==
  /\ pc = "run_start"
  /\ inp \in {<<e, t, s>> : e \in RunTerms \cup {Null}, t \in 0..MaxBudget, s \in Strategy}
  /\ out = NoResult
  /\ expr = inp[1]
  /\ steps = <<>>
  /\ i = 0
  /\ calls = 0
  /\ scanner = NewScanner

\* if (!expr) return steps;
RunNoExpr ==
  /\ pc = "run_start"
  /\ expr = Null
  /\ pc' = "run_done"
  /\ UNCHANGED <<scanner, inp, out, expr, steps, i, calls>>

\* let i = 0, entering the loop
RunEnter ==
  /\ pc = "run_start"
  /\ expr # Null
  /\ i' = 0
  /\ pc' = "run_loop"
  /\ UNCHANGED <<scanner, inp, out, expr, steps, calls>>

\* The loop body pushing the printed term after the step instead of before.
RunIterate_pushes_after_step ==
  /\ pc = "run_loop"
  /\ i < inp[2]
  /\ calls' = calls + 1
  /\ LET next_expr == reduce(inp[3], expr) IN
       IF next_expr = Null
         THEN /\ steps' = Append(steps, pretty(expr))
              /\ pc' = "run_done"
              /\ UNCHANGED <<expr, i>>
         ELSE /\ steps' = Append(steps, pretty(next_expr))
              /\ expr' = next_expr
              /\ i' = i + 1
              /\ pc' = "run_loop"
  /\ UNCHANGED <<scanner, inp, out>>

\* The loop body entered for two values of i past the budget.
RunIterate_past_budget ==
  /\ pc = "run_loop"
  /\ i <= inp[2] + 1
  /\ steps' = Append(steps, pretty(expr))
  /\ calls' = calls + 1
  /\ LET next_expr == reduce(inp[3], expr) IN
       IF next_expr = Null
         THEN /\ pc' = "run_done"
              /\ UNCHANGED <<expr, i>>
         ELSE /\ expr' = next_expr
              /\ i' = i + 1
              /\ pc' = "run_loop"
  /\ UNCHANGED <<scanner, inp, out>>

\* One pass of the loop body: push the printed term, then try a step.
RunIterate ==
  /\ pc = "run_loop"
  /\ i < inp[2]
  /\ steps' = Append(steps, pretty(expr))
  /\ calls' = calls + 1
  /\ LET next_expr == reduce(inp[3], expr) IN
       IF next_expr = Null
         THEN /\ pc' = "run_done"
              /\ UNCHANGED <<expr, i>>
         ELSE /\ expr' = next_expr
              /\ i' = i + 1
              /\ pc' = "run_loop"
  /\ UNCHANGED <<scanner, inp, out>>

\* The loop condition i < timeout fails: return steps.
RunTimeout ==
  /\ pc = "run_loop"
  /\ ~(i < inp[2])
  /\ pc' = "run_done"
  /\ UNCHANGED <<scanner, inp, out, expr, steps, i, calls>>

NextRun == RunNoExpr \/ RunEnter \/ RunIterate \/ RunTimeout

Spec == InitRun /\ [][NextRun]_vars

(***************************************************************************)
(* Notions the claims about run are stated with.                           *)
(***************************************************************************)
\* The term reached from e by k steps of strategy s (e itself while k = 0,
\* and the last term once no step is left).
RECURSIVE IterReduce(_, _, _)
IterReduce(s, e, k) ==
  IF k = 0 \/ reduce(s, e) = Null THEN e ELSE IterReduce(s, reduce(s, e), k - 1)

\* Repeated steps of strategy s from e meet a term with no step among the
\* first n terms inspected.
RECURSIVE HaltsWithin(_, _, _)
HaltsWithin(s, e, n) ==
  /\ n > 0
  /\ \/ reduce(s, e) = Null
     \/ HaltsWithin(s, reduce(s, e), n - 1)

\* run has returned a trace for a term.
RunReturned == pc = "run_done" /\ inp[1] # Null

\* run returned because reduce found no step (the break).
RunBroke == RunReturned /\ i < inp[2]

\* run returned because the budget ran out.
RunExhausted == RunReturned /\ ~(i < inp[2])

\* Every term obtained from e by contracting one beta redex or unfolding one
\* macro reference, anywhere in e.
RECURSIVE BetaReducts(_)
BetaReducts(e) ==
  CASE e.kind = "var" -> {}
    [] e.kind = "macro" -> {e.body}
    [] e.kind = "abs" -> {Abs(e.vbl, b) : b \in BetaReducts(e.body)}
    [] e.kind = "app" ->
         (IF e.e1.kind = "abs" THEN {subst(e.e1.body, e.e2, e.e1.vbl)} ELSE {})
           \cup {App(a, e.e2) : a \in BetaReducts(e.e1)}
           \cup {App(e.e1, b) : b \in BetaReducts(e.e2)}

MaxBetaSteps == 3

RECURSIVE BetaReachable(_, _)
BetaReachable(S, k) ==
  IF k = 0 THEN S
  ELSE BetaReachable(S \cup UNION {BetaReducts(e) : e \in S}, k - 1)

\* Some sequence of at most MaxBetaSteps reductions takes t to a term with
\* no redex.
HasNormalForm(t) == \E e \in BetaReachable({t}, MaxBetaSteps) : BetaReducts(e) = {}

\* C2: normal-order reduction finds a normal form for every term that has
\* one.  A term that reduce_normal steps to itself is never left, so on a
\* term with a normal form the iteration must never meet such a term.
C2_NormalOrderFindsNormalForm ==
  (pc = "run_loop" /\ inp[3] = "normal" /\ reduce_normal(expr) = expr)
    => ~HasNormalForm(inp[1])

CbnFuel == 40

TraceFollowsSteps ==
  \A k \in DOMAIN steps : steps[k] = pretty(IterReduce(inp[3], inp[1], k - 1))

\* C4 as stated: the trace's first entry is the initial term, every later
\* entry is one step from the term of the entry before it, and with no
\* initial term the trace is empty.
C4_TraceStartsAtInitialTerm ==
  pc = "run_done" =>
    IF inp[1] = Null
      THEN steps = <<>>
      ELSE Len(steps) >= 1 /\ steps[1] = pretty(inp[1]) /\ TraceFollowsSteps

\* C4 as amended: the same for every budget of at least 1; with a budget of
\* 0 the trace is empty.
C4_TraceSteps ==
  pc = "run_done" =>
    IF inp[1] = Null \/ inp[2] = 0
      THEN steps = <<>>
      ELSE Len(steps) >= 1 /\ steps[1] = pretty(inp[1]) /\ TraceFollowsSteps

\* The returned trace of five entries for ID ID y under CBV, ending at y.
C4_Witness ==
  /\ RunReturned /\ inp[3] = "cbv"
  /\ inp[1] = App(App(MacroID, MacroID), Var("y"))
  /\ Len(steps) = 5 /\ steps[5] = "y"

\* An entry carries a marker when it is more than the printed term it stands for.
EntryMarked(k) == steps[k] # pretty(IterReduce(inp[3], inp[1], k - 1))

\* C5: the final entry of a trace carries a timed-out marker exactly when
\* the budget ran out before a term with no step was met.
C5_FinalEntryTellsTimeout ==
  (RunReturned /\ steps # <<>>) => (EntryMarked(Len(steps)) <=> RunExhausted)

\* C6: run calls reduce at most budget + 1 times and returns at most
\* budget + 1 entries; it terminates: while it has not returned it can take
\* a step, and each pass through the loop uses up one unit of the budget.
C6_RunBounded ==
  /\ calls <= inp[2] + 1
  /\ Len(steps) <= inp[2] + 1
  /\ pc # "run_done" => ENABLED NextRun
  /\ pc = "run_loop" => (i <= inp[2] /\ calls = i)

\* Omega, which has no normal form, ran out of a positive budget.
C6_Witness ==
  /\ RunExhausted /\ inp[1] = Omega /\ inp[2] >= 1
  /\ calls = inp[2] /\ Len(steps) = inp[2]

(***************************************************************************)
(* One call of a reducer: inp = <<term, strategy>>.                        *)
(***************************************************************************)
StepTerms ==
  LET small == Grow(RunNames, RunAtoms)
      terms == Grow(RunNames, small)
  IN terms
       \cup AbsOver(RunNames, terms)
       \cup {App(f, a) : f \in AbsOver(RunNames, small), a \in RunAtoms}
       \cup {Omega, DiscardsOmega, DeltaIdId, App(IdTerm, Abs("y", Var("y"))),
             App(Abs("x", App(MacroID, Var("x"))), App(MacroID, MacroID))}

InitStep ==
  /\ pc = "step_call"
  /\ inp \in {<<e, s>> : e \in StepTerms, s \in Strategy}
  /\ out = NoResult
  /\ expr = Null
  /\ steps = <<>>
  /\ i = 0
  /\ calls = 0
  /\ scanner = NewScanner

StepCall ==
  /\ pc = "step_call"
  /\ out' = reduce(inp[2], inp[1])
  /\ pc' = "step_ret"
  /\ UNCHANGED <<scanner, inp, expr, steps, i, calls>>

NextStep == StepCall

SpecStep == InitStep /\ [][NextStep]_vars

\* C7: reduce_cbv and reduce_cbn return null for every term that is not an
\* application: variables, macro references and abstractions, whatever the
\* abstraction's body holds.
C7_OnlyApplicationsStep ==
  (pc = "step_ret" /\ inp[2] \in {"cbv", "cbn"} /\ inp[1].kind # "app")
    => out = Null

\* CBV was asked to step lambda x. (lambda x. x) x, whose body is a redex.
C7_Witness ==
  /\ pc = "step_ret" /\ inp[2] = "cbv"
  /\ inp[1] = Abs("x", App(IdTerm, Var("x")))
  /\ reduce_appl(inp[1]) # Null
  /\ out = Null

\* C8: App(Abs(v, body), arg), where arg has no CBV step and is not a macro
\* reference with an application as expansion, takes the CBV step to
\* subst(body, arg, v).
C8_CbvBeta ==
  (/\ pc = "step_ret" /\ inp[2] = "cbv"
   /\ inp[1].kind = "app" /\ inp[1].e1.kind = "abs"
   /\ reduce_cbv(inp[1].e2) = Null
   /\ ~(inp[1].e2.kind = "macro" /\ inp[1].e2.body.kind = "app"))
    => out = subst(inp[1].e1.body, inp[1].e2, inp[1].e1.vbl)

\* (lambda x. x) (lambda y. y) took one CBV step to lambda y. y.
C8_Witness ==
  /\ pc = "step_ret" /\ inp[2] = "cbv"
  /\ inp[1] = App(IdTerm, Abs("y", Var("y")))
  /\ out = Abs("y", Var("y"))
  /\ pretty(out) = "λy. y"

(***************************************************************************)
(* alpha_equivalent called on the pairs of three terms: inp = <<a, b, c>>. *)
(***************************************************************************)
AlphaNames == {"a", "b"}

AlphaVars == {Var(n) : n \in AlphaNames}

\* The closed terms of at most two levels over the names a and b.
AlphaPlain == {t \in Grow(AlphaNames, Grow(AlphaNames, AlphaVars)) : fv(t) = <<>>}

AlphaDeeper ==
  { Abs("a", Abs("b", App(Var("a"), Var("b")))),
    Abs("b", Abs("a", App(Var("b"), Var("a")))),
    Abs("a", Abs("b", App(Var("b"), Var("a")))),
    Abs("a", Abs("a", App(Var("a"), Var("a")))) }

AlphaWithMacros ==
  { MacroID, MacroFALSE, Macro("I", Abs("a", Var("a"))),
    App(MacroID, MacroID), Abs("a", MacroID), Abs("b", MacroID) }

AlphaOpen == {Var("a"), Abs("a", Var("b")), App(Var("a"), Abs("b", Var("b")))}

AlphaTerms == AlphaPlain \cup AlphaDeeper \cup AlphaWithMacros \cup AlphaOpen

InitAlpha ==
  /\ pc = "alpha_call"
  /\ inp \in {<<a, b, c>> : a \in AlphaTerms, b \in AlphaTerms, c \in AlphaTerms}
  /\ out = NoResult
  /\ expr = Null
  /\ steps = <<>>
  /\ i = 0
  /\ calls = 0
  /\ scanner = NewScanner

AlphaCall ==
  /\ pc = "alpha_call"
  /\ out' = [aa |-> alpha_equivalent(inp[1], inp[1]),
             ab |-> alpha_equivalent(inp[1], inp[2]),
             ba |-> alpha_equivalent(inp[2], inp[1]),
             bc |-> alpha_equivalent(inp[2], inp[3]),
             ac |-> alpha_equivalent(inp[1], inp[3]),
             equiv_ab |-> equiv_a(inp[1], inp[2], <<>>)]
  /\ pc' = "alpha_ret"
  /\ UNCHANGED <<scanner, inp, expr, steps, i, calls>>

NextAlpha == AlphaCall

SpecAlpha == InitAlpha /\ [][NextAlpha]_vars

\* The de Bruijn representation of a term: names dropped, each bound
\* occurrence replaced by the number of binders between it and its own.
RECURSIVE DeBruijn(_, _)
DeBruijn(e, binders) ==
  CASE e.kind = "var" ->
         IF Includes(binders, e.name)
           THEN [kind |-> "bound",
                 up |-> CHOOSE d \in 0..Len(binders) - 1 :
                          /\ binders[Len(binders) - d] = e.name
                          /\ \A c \in 0..d - 1 : binders[Len(binders) - c] # e.name]
           ELSE [kind |-> "free", name |-> e.name]
    [] e.kind = "app" ->
         [kind |-> "app", e1 |-> DeBruijn(e.e1, binders), e2 |-> DeBruijn(e.e2, binders)]
    [] e.kind = "abs" ->
         [kind |-> "abs", body |-> DeBruijn(e.body, Append(binders, e.vbl))]
    [] e.kind = "macro" -> [kind |-> "macro", name |-> e.name]

RECURSIVE HasMacro(_)
HasMacro(e) ==
  CASE e.kind = "var" -> FALSE
    [] e.kind = "app" -> HasMacro(e.e1) \/ HasMacro(e.e2)
    [] e.kind = "abs" -> HasMacro(e.body)
    [] e.kind = "macro" -> TRUE

\* A closed term without macro references.
PlainClosed(e) == FV(e) = {} /\ ~HasMacro(e)

\* C9: on closed terms without macro references, alpha_equivalent holds
\* exactly when the two terms have the same de Bruijn representation.
C9_AlphaIsDeBruijn ==
  (pc = "alpha_ret" /\ PlainClosed(inp[1]) /\ PlainClosed(inp[2]))
    => (out.ab <=> DeBruijn(inp[1], <<>>) = DeBruijn(inp[2], <<>>))

\* The three cases of the tests: lambda a. a against lambda b. b (equal),
\* lambda a. lambda b. a against lambda a. lambda b. b (different), and
\* lambda a. lambda b. b against lambda a. lambda a. a (equal).
C9_Witness ==
  /\ pc = "alpha_ret"
  /\ inp[1] = Abs("a", Abs("b", Var("b")))
  /\ inp[2] = Abs("a", Abs("a", Var("a")))
  /\ inp[3] = Abs("a", Abs("b", Var("a")))
  /\ out.ab /\ out.ba /\ ~out.bc /\ ~out.ac
  /\ alpha_equivalent(Abs("a", Var("a")), Abs("b", Var("b")))

\* C10: on closed terms alpha_equivalent is reflexive, symmetric and
\* transitive.
C10_AlphaIsEquivalence ==
  (pc = "alpha_ret" /\ is_closed(inp[1]) /\ is_closed(inp[2]) /\ is_closed(inp[3]))
    => /\ out.aa
       /\ out.ab => out.ba
       /\ (out.ab /\ out.bc) => out.ac

\* Three different closed terms, pairwise equivalent.
C10_Witness ==
  /\ pc = "alpha_ret"
  /\ inp[1] # inp[2] /\ inp[2] # inp[3] /\ inp[1] # inp[3]
  /\ is_closed(inp[1]) /\ is_closed(inp[2]) /\ is_closed(inp[3])
  /\ out.aa /\ out.ab /\ out.ba /\ out.bc /\ out.ac

\* The de Bruijn representation of a term with every macro reference read
\* as its expansion (a closed term, so its binders start afresh).
RECURSIVE DeBruijnUnfolded(_, _)
DeBruijnUnfolded(e, binders) ==
  CASE e.kind = "var" -> DeBruijn(e, binders)
    [] e.kind = "app" ->
         [kind |-> "app", e1 |-> DeBruijnUnfolded(e.e1, binders),
                          e2 |-> DeBruijnUnfolded(e.e2, binders)]
    [] e.kind = "abs" ->
         [kind |-> "abs", body |-> DeBruijnUnfolded(e.body, Append(binders, e.vbl))]
    [] e.kind = "macro" -> DeBruijnUnfolded(e.body, <<>>)

SameUnfolded(a, b) == DeBruijnUnfolded(a, <<>>) = DeBruijnUnfolded(b, <<>>)

\* C11 as stated: on closed terms alpha_equivalent answers as the comparison
\* of the two terms with every macro reference replaced by its expansion.
C11_AlphaSeesThroughMacros ==
  (pc = "alpha_ret" /\ is_closed(inp[1]) /\ is_closed(inp[2]))
    => (out.ab <=> SameUnfolded(inp[1], inp[2]))

\* C11 amended: equiv_a is the comparison that sees through macro
\* references; alpha_equivalent only implies it.
C11_EquivASeesThroughMacros ==
  (pc = "alpha_ret" /\ is_closed(inp[1]) /\ is_closed(inp[2]))
    => /\ out.equiv_ab <=> SameUnfolded(inp[1], inp[2])
       /\ out.ab => out.equiv_ab

\* The reference ID against the plain term lambda a. a: equal for equiv_a,
\* different for alpha_equivalent.
C11_Witness ==
  /\ pc = "alpha_ret"
  /\ inp[1] = MacroID /\ inp[2] = Abs("a", Var("a"))
  /\ out.equiv_ab /\ ~out.ab

(***************************************************************************)
(* The macro box: definitions entered one after the other, and             *)
(* recompileMacros called again on the sorted table.                       *)
(* inp = <<code>>, out = [error, old, added]; pc tells whether the table   *)
(* is still the library of a new Scanner ("macro_new") or the outcome of a *)
(* recompilation ("macro_compiled").                                       *)
(***************************************************************************)
MaxDefinitions == 3

\* Texts whose body has a free variable.
OpenCodes == {"C = λx. y", "SUCC = λn. m"}

\* Texts whose body is followed by input that belongs to no term.
TrailingCodes == {"D = (\\x. x))", "D = \\x. x ) y"}

MacroCodes ==
  { "A = λx. x",
    "B = A A",
    "A = A A",
    "SUCC = PLUS",
    "SUCC = λn. n",
    "O = (λx. x x) (λx. x x)",
    "W = (λy. λx. O y) (ID ID)",
    " ",
    "A λx. x",
    "B = (ID" } \cup OpenCodes \cup TrailingCodes

InitMacro ==
  /\ pc = "macro_new"
  /\ inp = <<>>
  /\ out = NoResult
  /\ expr = Null
  /\ steps = <<>>
  /\ i = 0
  /\ calls = 0
  /\ scanner = NewScanner

\* The text of the macro box is executed.
MacroExecute ==
  /\ pc \in {"macro_new", "macro_compiled"}
  /\ calls < MaxDefinitions
  /\ \E code \in MacroCodes :
       \E done_ \in {macro_execute(scanner, code)} :
         /\ inp' = <<code>>
         /\ scanner' = done_.s
         /\ out' = [error |-> done_.error, old |-> done_.old, added |-> done_.added]
         /\ pc' = IF done_.error = NoError /\ done_.s.macro_lookup # done_.old
                    THEN "macro_compiled" ELSE pc
  /\ calls' = calls + 1
  /\ UNCHANGED <<expr, steps, i>>

\* scanner.recompileMacros(sortMacros(scanner)) once more, with no
\* definition in between.
RecompileMacros ==
  /\ pc = "macro_compiled"
  /\ inp # <<"recompileMacros">>
  /\ \E recompiled \in {recompileMacros(scanner, sortMacros(scanner).val)} :
       /\ scanner' = recompiled.s
       /\ out' = [error |-> IF recompiled.thrown THEN recompiled.err ELSE NoError,
                  old |-> scanner.macro_lookup, added |-> scanner.macro_lookup]
  /\ inp' = <<"recompileMacros">>
  /\ UNCHANGED <<pc, expr, steps, i, calls>>

\* Texts of the program box.
ProgramCodes == {"W", "O", "B A", "λx. W (SUCC x)", "Q", "(W"}

\* The text of the program box is executed under the selected strategy, up
\* to the parse of runCode: expr is the parsed term, out what parse
\* returned or threw.  The run and the display that follow leave the
\* scanner as the parse left it, so that what can follow in the macro box
\* is what could follow before the program ran.
ProgramParse ==
  /\ pc \in {"macro_new", "macro_compiled"}
  /\ \E code \in ProgramCodes, strategy \in Strategy :
       \E parsed \in {parse(set_string(scanner, code), strategy)} :
         /\ inp' = <<code, strategy>>
         /\ scanner' = parsed.s
         /\ expr' = IF parsed.thrown THEN Null ELSE parsed.val
         /\ out' = [error |-> IF parsed.thrown THEN parsed.err ELSE NoError,
                    old |-> scanner.macro_lookup, added |-> scanner.macro_lookup]
  /\ pc' = "program_parsed"
  /\ UNCHANGED <<steps, i, calls>>

NextMacro == MacroExecute \/ RecompileMacros \/ ProgramParse

SpecMacro == InitMacro /\ [][NextMacro]_vars

\* C12: a definition whose body has a free variable is rejected with
\* 'Macros must be closed terms' and leaves the macro table as it was
\* before the attempt.
C12_OpenBodyRejected ==
  (inp # <<>> /\ inp[1] \in OpenCodes)
    => /\ out.error.msg = "Macros must be closed terms"
       /\ scanner.macro_lookup = out.old

\* The redefinition of SUCC with an open body was rejected after another
\* definition had changed the table, and SUCC is still what it was.
C12_Witness ==
  /\ inp = <<"SUCC = λn. m">> /\ calls = 2
  /\ pc = "macro_compiled"
  /\ out.error.msg = "Macros must be closed terms"
  /\ Lookup(scanner.macro_lookup, "SUCC") = Lookup(out.old, "SUCC")
  /\ HasMacroNamed(scanner.macro_lookup, "A")

\* The names of the macro references of a term, those inside the cached
\* expansions left aside.
RECURSIVE Refs(_)
Refs(e) ==
  CASE e.kind = "app" -> Refs(e.e1) \cup Refs(e.e2)
    [] e.kind = "abs" -> Refs(e.body)
    [] e.kind = "macro" -> {e.name}
    [] OTHER -> {}

\* The names reached from the names of S in at most k steps of the
\* dependency relation of a table.
RECURSIVE ReachedFrom(_, _, _)
ReachedFrom(lookup, S, k) ==
  IF k = 0 THEN S
  ELSE LET direct == UNION {Refs(lookup[j].unreduced) :
                              j \in {m \in DOMAIN lookup : lookup[m].name \in S}}
       IN ReachedFrom(lookup, S \cup direct, k - 1)

\* Some macro of the table depends on itself, directly or through others.
Cyclic(lookup) ==
  \E k \in DOMAIN lookup :
    lookup[k].name \in ReachedFrom(lookup, Refs(lookup[k].unreduced), Len(lookup))

CircularMsg == "Cannot define circularly dependent macro"

\* C13: a definition that makes the dependency relation cyclic fails with
\* 'Cannot define circularly dependent macro', and the table is then equal
\* to the snapshot taken before the attempt, in every name and every field.
C13_CycleRolledBack ==
  (inp # <<>> /\ inp[1] \in MacroCodes)
    => /\ Cyclic(out.added) =>
            out.error.msg = CircularMsg /\ scanner.macro_lookup = out.old
       /\ out.error.msg = CircularMsg => scanner.macro_lookup = out.old

\* SUCC was redefined as PLUS, which refers to SUCC, after another
\* definition; the attempt failed and the table is the snapshot.
C13_Witness ==
  /\ inp = <<"SUCC = PLUS">> /\ calls = 2 /\ pc = "macro_compiled"
  /\ Lookup(out.added, "SUCC").unreduced.kind = "macro"
  /\ Cyclic(out.added)
  /\ out.error.msg = CircularMsg
  /\ out.added # out.old /\ scanner.macro_lookup = out.old

\* The macro references of a term, at every depth, with their cached
\* expansions.
RECURSIVE MacroRefs(_)
MacroRefs(e) ==
  CASE e.kind = "app" -> MacroRefs(e.e1) \cup MacroRefs(e.e2)
    [] e.kind = "abs" -> MacroRefs(e.body)
    [] e.kind = "macro" -> {e} \cup MacroRefs(e.body)
    [] OTHER -> {}

\* The expansion a reference to a macro stands for under a strategy: the
\* full normal form, else the value of the strategy, else the source term.
Expansion(mac, strat) ==
  IF mac.full_val # Null THEN mac.full_val
  ELSE IF strat = "cbv" /\ mac.cbv_val # Null THEN mac.cbv_val
  ELSE IF strat = "cbn" /\ mac.cbn_val # Null THEN mac.cbn_val
  ELSE mac.unreduced

MaxTokens == 5

\* The abstraction token, written with the backslash the scanner takes for
\* a lambda.
LambdaToken == "\\x."

Tokens == {"x", "y", "ID", "(", ")", LambdaToken}

TokenSeqs == UNION {[1..n -> Tokens] : n \in 1..MaxTokens}

\* The text of a token sequence: its tokens, a space between two.
RECURSIVE Text(_)
Text(ts) == IF Len(ts) = 1 THEN ts[1] ELSE ts[1] \o " " \o Text(Tail(ts))

ParseStrategies == {"cbv", "normal"}

InitParse ==
  /\ pc = "parse_call"
  /\ inp \in {<<ts, s>> : ts \in TokenSeqs, s \in ParseStrategies}
  /\ out = NoResult
  /\ expr = Null
  /\ steps = <<>>
  /\ i = 0
  /\ calls = 0
  /\ scanner = NewScanner

\* scanner.set_string(code); parse(scanner, strategy)
ParseCall ==
  /\ pc = "parse_call"
  /\ \E parsed \in {parse(set_string(scanner, Text(inp[1])), inp[2])} :
       /\ scanner' = parsed.s
       /\ expr' = IF parsed.thrown THEN Null ELSE parsed.val
       /\ out' = [error |-> IF parsed.thrown THEN parsed.err ELSE NoError]
  /\ pc' = "parse_done"
  /\ UNCHANGED <<inp, steps, i, calls>>

NextParse == ParseCall

SpecParse == InitParse /\ [][NextParse]_vars

(***************************************************************************)
(* Resugaring exercised on its own: resugar(e, scanner.macro_lookup, s) on *)
(* the terms a run can end at, over the library of a new Scanner and over  *)
(* that library with O and W defined in the macro box.                     *)
(***************************************************************************)
ScannerWithOW ==
  macro_execute(macro_execute(NewScanner, "O = (\\x. x x) (\\x. x x)").s,
                "W = (\\y. \\x. O y) (ID ID)").s

ResugarScanners == {NewScanner, ScannerWithOW}

ResugarNames == {"x", "y"}

\* lambda f. lambda x. f x  and  lambda f. lambda x. f (f x)
ChurchOne == Abs("f", Abs("x", App(Var("f"), Var("x"))))

ChurchTwo == Abs("f", Abs("x", App(Var("f"), App(Var("f"), Var("x")))))

ResugarTerms ==
  Grow(ResugarNames, {Var(n) : n \in ResugarNames})
    \cup { Abs("a", Abs("b", Var("b"))),
           Abs("a", Abs("b", Var("a"))),
           App(IdTerm, IdTerm),
           Abs("z", App(App(Var("z"), IdTerm), IdTerm)),
           Abs("z", App(Var("z"), ChurchOne)),
           App(Var("y"), App(IdTerm, ChurchOne)),
           ChurchTwo,
           Delta,
           Omega,
           MacroID,
           App(MacroID, Var("y")),
           App(MacroID, MacroID),
           Abs("x", App(Macro("O", Omega), MacroID)),
           Abs("x", App(Omega, IdTerm)) }

InitResugar ==
  /\ pc = "resugar_call"
  /\ inp \in {<<e, s>> : e \in ResugarTerms, s \in Strategy}
  /\ out = NoResult
  /\ expr = Null
  /\ steps = <<>>
  /\ i = 0
  /\ calls = 0
  /\ scanner \in ResugarScanners

\* let [new_e, sugared] = resugar(e, scanner.macro_lookup, strategy)
ResugarCall ==
  /\ pc = "resugar_call"
  /\ \E r \in {resugar(inp[1], scanner.macro_lookup, inp[2])} :
       out' = [term |-> r[1], sugared |-> r[2]]
  /\ pc' = "resugar_ret"
  /\ UNCHANGED <<scanner, inp, expr, steps, i, calls>>

NextResugar == ResugarCall

SpecResugar == InitResugar /\ [][NextResugar]_vars

\* The macro references the parser built for the names it met in the text:
\* those of e that are not inside the expansion of another.
RECURSIVE MetMacros(_)
MetMacros(e) ==
  CASE e.kind = "app" -> MetMacros(e.e1) \cup MetMacros(e.e2)
    [] e.kind = "abs" -> MetMacros(e.body)
    [] e.kind = "macro" -> {e}
    [] OTHER -> {}

RECURSIVE Nesting(_, _)
Nesting(ts, k) ==
  IF k = 0 THEN 0
  ELSE Nesting(ts, k - 1)
         + (IF ts[k] = "(" THEN 1 ELSE IF ts[k] = ")" THEN -1 ELSE 0)

\* The positions of ts outside every pair of parentheses.
TopLevel(ts) == {k \in 1..Len(ts) : Nesting(ts, k - 1) = 0}

\* The term of a single name.
Atom(tok) == IF tok = "ID" THEN MacroID ELSE Var(tok)

\* The term a well-formed token sequence denotes, read from its right end:
\* an abstraction outside every parenthesis takes all that follows it for
\* its body; what precedes it is applied to it; without one, the sequence
\* is the application of all but its last term to its last term, a name or
\* a parenthesised sequence.
RECURSIVE Reading(_)
Reading(ts) ==
  LET n == Len(ts)
      lambdas == {k \in TopLevel(ts) : ts[k] = LambdaToken}
  IN IF lambdas # {}
       THEN LET p == CHOOSE k \in lambdas : \A m \in lambdas : k <= m IN
            IF p = 1 THEN Abs("x", Reading(Tail(ts)))
            ELSE App(Reading(SubSeq(ts, 1, p - 1)), Reading(SubSeq(ts, p, n)))
     ELSE LET opens == {k \in TopLevel(ts) : ts[k] = "("}
              first == IF ts[n] = ")"
                         THEN CHOOSE k \in opens : \A m \in opens : m <= k
                         ELSE n
              last == IF ts[n] = ")" THEN Reading(SubSeq(ts, first + 1, n - 1))
                      ELSE Atom(ts[n])
          IN IF first = 1 THEN last
             ELSE App(Reading(SubSeq(ts, 1, first - 1)), last)

\* C17: a text that parses denotes the term in which adjacent terms
\* t1 t2 ... tn nest to the left, App(...App(App(t1, t2), t3)..., tn), and
\* the body of an abstraction runs as far to the right as it can: to the
\* closing parenthesis of the group it is in, or to the end of the text.
C17_LeftNestedApplication ==
  (pc = "parse_done" /\ out.error = NoError) => expr = Reading(inp[1])

\* lambda x. x y ID is the abstraction of (x y) ID, not an application of
\* an abstraction, nor x (y ID).
C17_Witness ==
  /\ pc = "parse_done" /\ out.error = NoError
  /\ inp[1] = <<LambdaToken, "x", "y", "ID">>
  /\ expr = Abs("x", App(App(Var("x"), Var("y")), MacroID))

\* Some open parenthesis of ts has no matching close: after it the nesting
\* never returns to what it was before it.
HasUnmatchedOpen(ts) ==
  \E k \in 1..Len(ts) :
    /\ ts[k] = "("
    /\ \A m \in k..Len(ts) : Nesting(ts, m) >= Nesting(ts, k)

\* j closing parentheses.
RECURSIVE Closers(_)
Closers(j) == IF j = 0 THEN "" ELSE " )" \o Closers(j - 1)

\* The text lacks nothing but closing parentheses: with some more of them
\* at its end it parses.
LacksOnlyClosers(ts, strat) ==
  \E j \in 1..Len(ts) :
    ~parse(set_string(NewScanner, Text(ts) \o Closers(j)), strat).thrown

\* C18 as stated: every text with an open parenthesis that has no matching
\* close is rejected with 'unbalanced parentheses' at the offset where the
\* parse failed.
C18_UnmatchedIsUnbalanced ==
  (pc = "parse_done" /\ HasUnmatchedOpen(inp[1])) =>
    /\ out.error.msg = "unbalanced parentheses"
    /\ out.error.pos = scanner.offset

\* C18, amended: every text with an open parenthesis that has no matching
\* close is rejected, with an error at the offset where the parse failed;
\* the error is 'unbalanced parentheses', at the end of the text, when the
\* text lacks nothing but closing parentheses.
C18_UnmatchedOpenRejected ==
  (pc = "parse_done" /\ HasUnmatchedOpen(inp[1])) =>
    /\ out.error # NoError
    /\ out.error.pos = scanner.offset
    /\ LacksOnlyClosers(inp[1], inp[2]) =>
         /\ out.error.msg = "unbalanced parentheses"
         /\ out.error.pos = Len(Text(inp[1]))

\* x ( \x. ( y : two open parentheses without a close, and the parser gets
\* to the end of the text before it misses one.
C18_Witness ==
  /\ pc = "parse_done"
  /\ inp[1] = <<"x", "(", LambdaToken, "(", "y">>
  /\ HasUnmatchedOpen(inp[1])
  /\ out.error = ParseError("unbalanced parentheses", 11)

\* The number of positions at which b has a macro reference where a has
\* none, a and b walked together.
RECURSIVE Replaced(_, _)
Replaced(a, b) ==
  IF b.kind = "macro" /\ a.kind # "macro" THEN 1
  ELSE IF a.kind = "app" /\ b.kind = "app"
    THEN Replaced(a.e1, b.e1) + Replaced(a.e2, b.e2)
  ELSE IF a.kind = "abs" /\ b.kind = "abs" THEN Replaced(a.body, b.body)
  ELSE 0

\* b is a but for the positions replaced by a macro reference.
RECURSIVE SameButReplaced(_, _)
SameButReplaced(a, b) ==
  IF b.kind = "macro" /\ a.kind # "macro" THEN TRUE
  ELSE CASE a.kind = "app" ->
              b.kind = "app" /\ SameButReplaced(a.e1, b.e1) /\ SameButReplaced(a.e2, b.e2)
         [] a.kind = "abs" ->
              b.kind = "abs" /\ b.vbl = a.vbl /\ SameButReplaced(a.body, b.body)
         [] OTHER -> b = a

\* The subterms of e, the expansions of its macro references left closed.
RECURSIVE Subterms(_)
Subterms(e) ==
  CASE e.kind = "app" -> {e} \cup Subterms(e.e1) \cup Subterms(e.e2)
    [] e.kind = "abs" -> {e} \cup Subterms(e.body)
    [] OTHER -> {e}

\* What e, its macros unfolded, comes to under s within the steps resugar
\* allows; Null when it is still stepping then.
ValueWithin(e, s) ==
  LET st == equiv_s_loop([term |-> replace_macros(e, <<>>), halted |-> FALSE],
                         ResugarTimeout + 1, s)
  IN IF st.halted THEN st.term ELSE Null

\* e and the stored value v come, under s, to the same term up to the names
\* of bound variables.
SameValue(e, v, s) ==
  /\ v # Null
  /\ ValueWithin(e, s) # Null
  /\ ValueWithin(v, s) # Null
  /\ is_closed(ValueWithin(e, s))
  /\ SameUnfolded(ValueWithin(e, s), ValueWithin(v, s))

\* e is equivalent to a stored value of the definition def: to its value
\* for the strategy s, or to its full normal form.
Equivalent(e, def, s) ==
  \/ s = "cbv" /\ SameValue(e, def.cbv_val, "cbv")
  \/ s = "cbn" /\ SameValue(e, def.cbn_val, "cbn")
  \/ s = "appl" /\ SameValue(e, def.full_val, "appl")
  \/ SameValue(e, def.full_val, "normal")

EquivalentToSome(e, sigma, s) == \E k \in DOMAIN sigma : Equivalent(e, sigma[k], s)

\* The reference b stands for the term a: it names a definition a is
\* equivalent to and caches a stored value of that definition.
RefersTo(b, a, sigma, s) ==
  /\ b.kind = "macro"
  /\ HasMacroNamed(sigma, b.name)
  /\ Equivalent(a, Lookup(sigma, b.name), s)
  /\ b.body # Null
  /\ b.body \in {Lookup(sigma, b.name).cbv_val, Lookup(sigma, b.name).cbn_val,
                 Lookup(sigma, b.name).full_val}

\* C19 as stated: the flag is true exactly when some subterm was replaced
\* by a macro reference; a term equivalent as a whole to a stored value of
\* a macro comes back as one reference to that macro, flag true; a term
\* none of whose subterms is equivalent to a macro comes back as it was,
\* flag false.
C19_FlagTellsReplacement ==
  pc = "resugar_ret" =>
    /\ out.sugared <=> Replaced(inp[1], out.term) >= 1
    /\ EquivalentToSome(inp[1], scanner.macro_lookup, inp[2]) =>
         /\ RefersTo(out.term, inp[1], scanner.macro_lookup, inp[2])
         /\ out.sugared
    /\ (\A t \in Subterms(inp[1]) : ~EquivalentToSome(t, scanner.macro_lookup, inp[2])) =>
         /\ out.term = inp[1]
         /\ ~out.sugared

\* C19, amended: as stated for the terms that are not macro references
\* already; a term that is one comes back as it is, flag false, and it and
\* the macro references inside a term count for nothing in the search.
C19_FlagTellsReplacementOfTerms ==
  pc = "resugar_ret" =>
    /\ out.sugared <=> Replaced(inp[1], out.term) >= 1
    /\ (inp[1].kind # "macro" /\ EquivalentToSome(inp[1], scanner.macro_lookup, inp[2])) =>
         /\ RefersTo(out.term, inp[1], scanner.macro_lookup, inp[2])
         /\ out.sugared
    /\ inp[1].kind = "macro" => (out.term = inp[1] /\ ~out.sugared)
    /\ (\A t \in Subterms(inp[1]) :
          t.kind # "macro" => ~EquivalentToSome(t, scanner.macro_lookup, inp[2])) =>
         /\ out.term = inp[1]
         /\ ~out.sugared

\* Under CBV the term lambda x. OMEGA (lambda x. x), which has no normal
\* form, is the CBV value of W and comes back as the reference W.
C19_Witness ==
  /\ pc = "resugar_ret"
  /\ inp = <<Abs("x", App(Omega, IdTerm)), "cbv">>
  /\ out.sugared
  /\ out.term.kind = "macro" /\ out.term.name = "W"
  /\ out.term.body = Lookup(scanner.macro_lookup, "W").cbv_val

\* C20 as stated: at most one position of the term is replaced, by a
\* reference that stands for the subterm it replaces, and all the rest is
\* as it was.
C20_OnlyFirstMatchReplaced ==
  pc = "resugar_ret" =>
    /\ Replaced(inp[1], out.term) <= 1
    /\ SameButReplaced(inp[1], out.term)

\* b is a with each of its outermost subterms that are equivalent to a
\* macro, and are not references already, replaced by a reference that
\* stands for it; nothing is replaced inside a replaced subterm, whose
\* reference caches the stored value as it is.
RECURSIVE OutermostReplaced(_, _, _, _)
OutermostReplaced(a, b, sigma, s) ==
  IF a.kind # "macro" /\ EquivalentToSome(a, sigma, s)
    THEN RefersTo(b, a, sigma, s)
  ELSE CASE a.kind = "app" ->
              /\ b.kind = "app"
              /\ OutermostReplaced(a.e1, b.e1, sigma, s)
              /\ OutermostReplaced(a.e2, b.e2, sigma, s)
         [] a.kind = "abs" ->
              /\ b.kind = "abs" /\ b.vbl = a.vbl
              /\ OutermostReplaced(a.body, b.body, sigma, s)
         [] OTHER -> b = a

\* C20, amended: every outermost matching subterm is replaced, so several
\* positions apart from each other may be; nothing is replaced inside a
\* replaced subterm and all the rest is as it was.
C20_OutermostMatchesReplaced ==
  pc = "resugar_ret" =>
    /\ OutermostReplaced(inp[1], out.term, scanner.macro_lookup, inp[2])
    /\ SameButReplaced(inp[1], out.term)

\* lambda z. z (lambda x. x) (lambda x. x) comes back as lambda z. z ID ID:
\* two positions replaced.
C20_Witness ==
  /\ pc = "resugar_ret"
  /\ inp[1] = Abs("z", App(App(Var("z"), IdTerm), IdTerm))
  /\ out.term = Abs("z", App(App(Var("z"), MacroID), MacroID))
  /\ Replaced(inp[1], out.term) = 2

(***************************************************************************)
(* The order in which each strategy looks for its step (SpecStep).         *)
(***************************************************************************)
\* C21: call-by-name never reduces an argument.  On App(e1, e2), reduce_cbn
\* returns subst(body, e2, v) with e2 as it stands when e1 is Abs(v, body),
\* App(expansion, e2) when e1 is a macro reference, and otherwise either null
\* or App(e1', e2) with e1' different from e1 and e2 unchanged.
C21_CbnLeavesArgument ==
  (pc = "step_ret" /\ inp[2] = "cbn" /\ inp[1].kind = "app")
    => LET e1 == inp[1].e1
           e2 == inp[1].e2
       IN CASE e1.kind = "abs" -> out = subst(e1.body, e2, e1.vbl)
            [] e1.kind = "macro" -> out = App(e1.body, e2)
            [] OTHER -> \/ out = Null
                        \/ /\ out.kind = "app"
                           /\ out.e2 = e2
                           /\ out.e1 # e1

\* (lambda x. x) (ID ID): the argument has a call-by-value step, and the
\* call-by-name step substituted it unreduced.
C21_Witness ==
  /\ pc = "step_ret" /\ inp[2] = "cbn"
  /\ inp[1] = App(IdTerm, App(MacroID, MacroID))
  /\ reduce_cbv(inp[1].e2) # Null
  /\ out = App(MacroID, MacroID)

\* C22: under call-by-value, normal order and applicative order, a macro
\* reference in argument position is unfolded in place, App(e1, M) stepping
\* to App(e1, expansion of M), only if the expansion is an application; a
\* reference whose expansion is an abstraction is never unfolded there.
C22_ArgumentUnfoldedOnlyIfApplication ==
  (/\ pc = "step_ret" /\ inp[2] \in {"cbv", "normal", "appl"}
   /\ inp[1].kind = "app" /\ inp[1].e2.kind = "macro"
   /\ out = App(inp[1].e1, inp[1].e2.body))
    => inp[1].e2.body.kind = "app"

\* x OMEGA stepped in normal order to x ((lambda x. x x) (lambda x. x x)),
\* while x ID has no normal-order step.
C22_Witness ==
  /\ pc = "step_ret" /\ inp[2] = "normal"
  /\ inp[1] = App(Var("x"), MacroOMEGA)
  /\ out = App(Var("x"), Omega)
  /\ reduce_normal(App(Var("x"), MacroID)) = Null

\* C23: applicative order reduces under binders, then the function part,
\* then substitutes, and reduces the argument last.  On App(Abs(v, body), arg)
\* reduce_appl returns App(Abs(v, body'), arg) when body steps to body', and
\* otherwise subst(body, arg, v) with arg as it stands; the step is one taken
\* inside arg only when the function part has no step and is neither an
\* abstraction nor a macro reference.
C23_ApplicativeStepOrder ==
  (pc = "step_ret" /\ inp[2] = "appl" /\ inp[1].kind = "app")
    => LET e1 == inp[1].e1
           arg == inp[1].e2
       IN /\ e1.kind = "abs" =>
               IF reduce_appl(e1.body) # Null
                 THEN out = App(Abs(e1.vbl, reduce_appl(e1.body)), arg)
                 ELSE out = subst(e1.body, arg, e1.vbl)
          /\ (/\ reduce_appl(arg) # Null
              /\ out = App(e1, reduce_appl(arg)))
               => /\ reduce_appl(e1) = Null
                  /\ e1.kind \notin {"abs", "macro"}

\* (lambda x. ID x) (ID ID) stepped under the binder and left the argument,
\* which has a step, alone.
C23_Witness ==
  /\ pc = "step_ret" /\ inp[2] = "appl"
  /\ inp[1] = App(Abs("x", App(MacroID, Var("x"))), App(MacroID, MacroID))
  /\ reduce_appl(inp[1].e2) # Null
  /\ out = App(Abs("x", App(IdTerm, Var("x"))), App(MacroID, MacroID))

(***************************************************************************)
(* Invariants of the macro table (SpecMacro).                              *)
(***************************************************************************)
\* The definitions of a table.
Definitions(lookup) == {lookup[k] : k \in DOMAIN lookup}

RECURSIVE Unbound(_, _)
Unbound(e, bound) ==
  CASE e.kind = "var" -> IF e.name \in bound THEN {} ELSE {e.name}
    [] e.kind = "app" -> Unbound(e.e1, bound) \cup Unbound(e.e2, bound)
    [] e.kind = "abs" -> Unbound(e.body, bound \cup {e.vbl})
    [] e.kind = "macro" -> Unbound(e.body, {})
    [] OTHER -> {}

RoundNames == {"x", "y0"}

RoundMacros == {"ID", "O", "W"}

\* The variables and the references to the macros of a table, as a parse
\* under strat builds them.
RoundAtoms(lookup, strat) ==
  {Var(n) : n \in RoundNames}
    \cup {Macro(n, Expansion(Lookup(lookup, n), strat)) :
            n \in {m \in RoundMacros : HasMacroNamed(lookup, m)}}

RoundTerms(lookup, strat) ==
  LET atoms == RoundAtoms(lookup, strat)
      terms == Grow(RoundNames, Grow(RoundNames, atoms))
  IN terms
       \cup {Abs("x", App(App(Var("x"), Abs("y0", App(Var("y0"), Var("x")))), t)) :
               t \in atoms}
       \cup {App(App(Abs("x", Var("x")), App(t, App(t, Var("x")))), Abs("x", t)) :
               t \in atoms}

InitRound ==
  /\ pc = "round_call"
  /\ scanner \in ResugarScanners
  /\ inp \in UNION {{<<t, strat>> : t \in RoundTerms(scanner.macro_lookup, strat)} :
                      strat \in Strategy}
  /\ out = NoResult
  /\ expr = Null
  /\ steps = <<>>
  /\ i = 0
  /\ calls = 0

\* scanner.set_string(pretty(t, null)); parse(scanner, strategy)
RoundParse ==
  /\ pc = "round_call"
  /\ \E parsed \in {parse(set_string(scanner, pretty(inp[1])), inp[2])} :
       /\ scanner' = parsed.s
       /\ out' = [error |-> IF parsed.thrown THEN parsed.err ELSE NoError,
                  val |-> IF parsed.thrown THEN Null ELSE parsed.val,
                  old |-> scanner.macro_lookup]
  /\ pc' = "round_parsed"
  /\ UNCHANGED <<inp, expr, steps, i, calls>>

\* scanner.recompileMacros(sortMacros(scanner))
RoundRecompile ==
  /\ pc = "round_call"
  /\ \E recompiled \in {recompileMacros(scanner, sortMacros(scanner).val)} :
       /\ scanner' = recompiled.s
       /\ out' = [error |-> IF recompiled.thrown THEN recompiled.err ELSE NoError,
                  val |-> Null,
                  old |-> scanner.macro_lookup]
  /\ pc' = "round_recompiled"
  /\ UNCHANGED <<inp, expr, steps, i, calls>>

NextRound == RoundParse \/ RoundRecompile

SpecRound == InitRound /\ [][NextRound]_vars

\* A term without the expansions its macro references carry.
RECURSIVE Shape(_)
Shape(e) ==
  CASE e.kind = "app" -> App(Shape(e.e1), Shape(e.e2))
    [] e.kind = "abs" -> Abs(e.vbl, Shape(e.body))
    [] e.kind = "macro" -> Macro(e.name, Null)
    [] OTHER -> e

\* C26: printing a term without elisions and parsing the text back, under
\* the strategy that resolved its macro references, yields the same term;
\* and recompileMacros, which parses each macro again from the printed form
\* of its source term, keeps the shape of every macro's source term.
C26_PrintedTermParsesBack ==
  /\ pc = "round_parsed" =>
       /\ out.error = NoError
       /\ out.val = inp[1]
  /\ pc = "round_recompiled" =>
       /\ out.error = NoError
       /\ \A def \in Definitions(out.old) :
            /\ HasMacroNamed(scanner.macro_lookup, def.name)
            /\ Shape(Lookup(scanner.macro_lookup, def.name).unreduced)
                 = Shape(def.unreduced)

\* (lambda x. x) (W (W x)) (lambda x. W), with W resolved to its
\* call-by-value value, was printed with parentheses around the function,
\* the nested argument and the abstraction in argument position, and parsed
\* back to itself.
C26_Witness ==
  /\ pc = "round_parsed" /\ inp[2] = "cbv"
  /\ HasMacroNamed(scanner.macro_lookup, "W")
  /\ LET w == Macro("W", Lookup(scanner.macro_lookup, "W").cbv_val)
     IN /\ inp[1] = App(App(Abs("x", Var("x")), App(w, App(w, Var("x")))),
                        Abs("x", w))
        /\ w.body # Null
  /\ pretty(inp[1]) = "(λx. x) (W (W x)) (λx. W)"
  /\ out.val = inp[1]

(***************************************************************************)
(* Normal forms and values (SpecStep).                                     *)
(***************************************************************************)
\* e holds, outside the expansions of its macro references, an application
\* whose function part is an abstraction or a macro reference, or whose
\* argument is a macro reference with an application as expansion.
RECURSIVE HasRedex(_)
HasRedex(e) ==
  CASE e.kind = "app" ->
         \/ e.e1.kind \in {"abs", "macro"}
         \/ (e.e2.kind = "macro" /\ e.e2.body.kind = "app")
         \/ HasRedex(e.e1)
         \/ HasRedex(e.e2)
    [] e.kind = "abs" -> HasRedex(e.body)
    [] OTHER -> FALSE

\* C27: reduce_normal returns null exactly when reduce_appl does, and
\* exactly when the term holds no redex anywhere outside macro expansions,
\* under binders and in argument positions included.
C27_NormalFormsAreRedexFree ==
  (pc = "step_ret" /\ inp[2] \in {"normal", "appl"})
    => /\ (out = Null) <=> ~HasRedex(inp[1])
       /\ (reduce_normal(inp[1]) = Null) <=> (reduce_appl(inp[1]) = Null)

\* lambda x. x ID has no normal-order step, while x (ID ID), whose only
\* redex is in argument position, has one.
C27_Witness ==
  /\ pc = "step_ret" /\ inp[2] = "normal"
  /\ inp[1] = Abs("x", App(Var("x"), MacroID))
  /\ out = Null
  /\ reduce_appl(inp[1]) = Null
  /\ reduce_normal(App(Var("x"), App(MacroID, MacroID))) # Null

(***************************************************************************)
(* Stored values (SpecMacro).                                              *)
(***************************************************************************)
\* C28: in every reachable table, the table of init_macros included, the
\* stored full_val of each macro that has one is a normal-order normal form:
\* reduce_normal returns null for it.
C28_FullValsAreNormalForms ==
  \A def \in Definitions(scanner.macro_lookup) :
    def.full_val # Null => reduce_normal(def.full_val) = Null

\* C29: a definition whose body is followed by input that is not part of a
\* complete term, such as one more closing parenthesis, is rejected with a
\* parse error and leaves the macro table as it was, as parse rejects such
\* a program with 'unexpected token'.
C29_TrailingInputRejected ==
  (inp # <<>> /\ inp[1] \in TrailingCodes)
    => /\ out.error # NoError
       /\ scanner.macro_lookup = out.old

\* C30: progress of closed terms under call by value and call by name.  A
\* closed term (macro references counting as closed) for which reduce_cbv or
\* reduce_cbn returns null is an abstraction or a macro reference: a closed
\* application has a step under both strategies.
C30_ClosedApplicationsStep ==
  (pc = "step_ret" /\ inp[2] \in {"cbv", "cbn"} /\ is_closed(inp[1]))
    => /\ out = Null => inp[1].kind \in {"abs", "macro"}
       /\ inp[1].kind = "app" =>
            (reduce_cbv(inp[1]) # Null /\ reduce_cbn(inp[1]) # Null)

\* OMEGA ID, closed through its macro references alone, took the
\* call-by-name step that unfolds OMEGA, while the open x ID is stuck.
C30_Witness ==
  /\ pc = "step_ret" /\ inp[2] = "cbn"
  /\ inp[1] = App(MacroOMEGA, MacroID)
  /\ is_closed(inp[1])
  /\ out = App(Omega, MacroID)
  /\ reduce_cbn(App(Var("x"), MacroID)) = Null

====
